---- MODULE Spec2Model ----
(***************************************************************************)
(* PhotoVault: the image upload handler (POST /api/images), the image      *)
(* delete handler (DELETE /api/images/[id]), the signup handler            *)
(* (POST /api/auth/signup) and the helpers they call, over an object store *)
(* (Supabase Storage bucket 'photos') and the tables 'images', 'users',    *)
(* 'invite_codes' and 'invite_code_usage'.  Each handler is cut at its     *)
(* awaits: one action per stretch of code that runs between two awaits.    *)
(* processImage and generateStoragePaths are also run on their own, over   *)
(* wider inputs than the handlers are given.                               *)
(***************************************************************************)
EXTENDS Integers, Sequences, FiniteSets, TLC

(***************************************************************************)
(* Bounds of the model.                                                    *)
(***************************************************************************)
NumSlots == 2          \* request handlers that can run at the same time
MaxPlans == 2          \* calls of generateStoragePaths compared with each other
MaxRequests == 3       \* requests received in one behaviour

(***************************************************************************)
(* Configuration of the program.                                           *)
(***************************************************************************)
MAX_FILE_SIZE_MB == 10
MAX_FILE_SIZE == MAX_FILE_SIZE_MB * 1024 * 1024
ALLOWED_MIME_TYPES ==
    {"image/jpeg", "image/png", "image/webp", "image/gif", "image/heic", "image/heif"}
PREVIEW_WIDTH == 300
FULL_WIDTH == 2000
UPLOAD_POINTS == 20                  \* uploadLimiter: points per window and key

(***************************************************************************)
(* Inputs.                                                                 *)
(***************************************************************************)
Requests == 1..MaxRequests           \* requests, numbered in order of arrival
Users == {"u1", "u2"}
NoSession == ""                      \* getCurrentUser() returned null
Sessions == Users \cup {NoSession}
Uploaders == {"u1"}                  \* who uploads while deletes run; no code
                                     \* looks at which user it is, so the other
                                     \* user's uploads are these, renamed
MimeInputs == {"image/jpeg", "image/heif", "application/pdf"}

\* The two headers getClientIP reads: x-forwarded-for as its comma-separated
\* entries, trimmed, and x-real-ip; <<>> and "" when the header is absent.
NoHeaders == [forwardedFor |-> <<>>, realIP |-> ""]
HeaderInputs ==
    {NoHeaders,
     [forwardedFor |-> <<>>, realIP |-> "10.0.0.2"],
     [forwardedFor |-> <<"10.0.0.1", "10.0.0.9">>, realIP |-> "10.0.0.2"]}
FileSizes == {0, MAX_FILE_SIZE, MAX_FILE_SIZE + 1}
Undecodable == <<0, 0, 1>>           \* bytes sharp cannot decode
\* A decodable image is <<width, height, orientation>>: the pixel size as
\* stored, which is what metadata() gives, and the EXIF orientation tag.
ImageInputs == {Undecodable, <<4000, 3000, 1>>}
Files ==
    {f \in [type : MimeInputs, size : FileSizes, image : ImageInputs] :
        f.size = 0 => f.image = Undecodable}
NoFile == [type |-> "", size |-> 0, image |-> Undecodable]
GoodFiles == {[type |-> "image/jpeg", size |-> MAX_FILE_SIZE, image |-> <<4000, 3000, 1>>]}
ImageIds == 1..MaxRequests           \* ids a DELETE can name, in use or not

(***************************************************************************)
(* validateImageFile: MIME allow-list, then size.                          *)
(***************************************************************************)
validateImageFile_NoMime(file) ==
    IF file.size > MAX_FILE_SIZE
    THEN [valid |-> FALSE, error |-> "File size exceeds limit"]
    ELSE [valid |-> TRUE, error |-> ""]

validateImageFile_Ge(file) ==
    IF file.type \notin ALLOWED_MIME_TYPES
    THEN [valid |-> FALSE, error |-> "Invalid file type"]
    ELSE IF file.size >= MAX_FILE_SIZE
    THEN [valid |-> FALSE, error |-> "File size exceeds limit"]
    ELSE [valid |-> TRUE, error |-> ""]

validateImageFile(file) ==
    IF file.type \notin ALLOWED_MIME_TYPES
    THEN [valid |-> FALSE, error |-> "Invalid file type"]
    ELSE IF file.size > MAX_FILE_SIZE
    THEN [valid |-> FALSE, error |-> "File size exceeds limit"]
    ELSE [valid |-> TRUE, error |-> ""]

(***************************************************************************)
(* processImage.  Math.round of a non-negative quotient n/d.               *)
(***************************************************************************)
Min(a, b) == IF a < b THEN a ELSE b
RoundDiv(n, d) == (2 * n + d) \div (2 * d)

\* .rotate(): tags 5 to 8 turn the picture by a quarter turn.
rotate(image) ==
    IF image[3] >= 5 THEN <<image[2], image[1]>> ELSE <<image[1], image[2]>>

\* .resize(width, height, {fit: 'inside', withoutEnlargement: true}) of a
\* picture of size input: one shrink factor for both axes, the larger of
\* input[1]/width and input[2]/height and at least 1; each axis is divided
\* by it, rounded, and never falls below one pixel.
resize(input, width, height) ==
    LET horizontal == input[1] * height >= input[2] * width
        num == IF horizontal THEN input[1] ELSE input[2]
        den == IF horizontal THEN width ELSE height
        n == IF num < den THEN 1 ELSE num
        d == IF num < den THEN 1 ELSE den
        Axis(len) == IF n > len * d THEN 1 ELSE RoundDiv(len * d, n)
    IN  [width |-> Axis(input[1]), height |-> Axis(input[2])]

NoRendition == [buffer |-> [width |-> 0, height |-> 0], width |-> 0, height |-> 0]

NoProcessed ==
    [threw |-> FALSE, filename |-> "", preview |-> NoRendition, full |-> NoRendition]

\* Math.min(PREVIEW_WIDTH, originalWidth), and the same for FULL_WIDTH.
targetWidth_Unclamped(profileWidth, originalWidth) == profileWidth

targetWidth(profileWidth, originalWidth) == Min(profileWidth, originalWidth)

\* Math.round((width / originalWidth) * originalHeight).
scaledHeight_Floor(width, originalWidth, originalHeight) ==
    (width * originalHeight) \div originalWidth

scaledHeight(width, originalWidth, originalHeight) ==
    RoundDiv(width * originalHeight, originalWidth)

\* buffer: the pixel size of the encoded picture; width, height: the numbers
\* processImage returns next to it.  resize() rejects a height that is not a
\* positive integer, and the call throws.
Derive(image, uuid) ==
    LET originalWidth == image[1]
        originalHeight == image[2]
        previewWidth == targetWidth(PREVIEW_WIDTH, originalWidth)
        previewHeight == scaledHeight(previewWidth, originalWidth, originalHeight)
        fullWidth == targetWidth(FULL_WIDTH, originalWidth)
        fullHeight == scaledHeight(fullWidth, originalWidth, originalHeight)
    IN  IF previewHeight < 1 \/ fullHeight < 1
        THEN [NoProcessed EXCEPT !.threw = TRUE, !.filename = uuid \o ".webp"]
        ELSE [threw |-> FALSE,
              filename |-> uuid \o ".webp",
              preview |-> [buffer |-> resize(rotate(image), previewWidth, previewHeight),
                           width |-> previewWidth, height |-> previewHeight],
              full |-> [buffer |-> resize(rotate(image), fullWidth, fullHeight),
                        width |-> fullWidth, height |-> fullHeight]]

processImage_Fallback(file, uuid) ==
    IF file.image = Undecodable THEN Derive(<<1920, 1080, 1>>, uuid)
    ELSE Derive(file.image, uuid)

processImage(file, uuid) ==
    IF file.image = Undecodable
    THEN [NoProcessed EXCEPT !.threw = TRUE, !.filename = uuid \o ".webp"]
    ELSE Derive(file.image, uuid)

(***************************************************************************)
(* generateStoragePaths.                                                   *)
(***************************************************************************)
generateStoragePaths_SameFolder(userId, filename) ==
    [previewPath |-> userId \o "/full/" \o filename,
     fullPath |-> userId \o "/full/" \o filename]

generateStoragePaths_NoOwner(userId, filename) ==
    [previewPath |-> "previews/" \o filename,
     fullPath |-> "full/" \o filename]

generateStoragePaths(userId, filename) ==
    [previewPath |-> userId \o "/previews/" \o filename,
     fullPath |-> userId \o "/full/" \o filename]

uuidv4_Repeating(n) == "uuid1"

uuidv4(n) == "uuid" \o ToString(n)

(***************************************************************************)
(* Arguments given to generateStoragePaths on its own.  The handler passes *)
(* session.userId, the id of a row of the users table (a UUID), and the    *)
(* filename of processImage; the owners here include one that is a prefix  *)
(* of another, the filenames include the empty one and ones that spell a   *)
(* folder.                                                                 *)
(***************************************************************************)
OwnerInputs == Users \cup {"u11"}
FilenameInputs ==
    {uuidv4(1) \o ".webp", uuidv4(2) \o ".webp", "",
     "previews/" \o uuidv4(1) \o ".webp", "full/" \o uuidv4(1) \o ".webp"}

(***************************************************************************)
(* Pictures given to processImage on its own: widths and heights around    *)
(* the two profile widths, very wide and very flat ones, with and without  *)
(* a quarter-turn orientation tag.                                         *)
(***************************************************************************)
DeriveWidths == {1, 2, 150, 299, 300, 301, 1000, 1999, 2000, 2001, 4000, 10000}
DeriveHeights == {1, 2, 14, 20, 225, 1500, 3000, 3001, 10000}
Orientations == {1, 6}
DeriveInputs == {Undecodable} \cup (DeriveWidths \X DeriveHeights \X Orientations)

(***************************************************************************)
(* State.                                                                  *)
(*   objects  paths present in the storage bucket                          *)
(*   images   rows of the images table                                     *)
(*   req      per request: the inputs, locals and position of the handler  *)
(*            that serves it ("idle": not yet received, or answered)       *)
(*   nextUuid, nextImageId  what uuidv4() and the table's id default give  *)
(*            next; both are taken as never repeating                      *)
(*   started  requests received so far                                     *)
(*   uploadLimiter  points consumed in the current window, per key (user   *)
(*            id and client address); no request is charged to a key of no *)
(*            user                                                         *)
(*   usedNames  the filenames processImage has generated so far           *)
(*   derived  the last picture given to processImage on its own, and what *)
(*            it returned                                                 *)
(*   planned  the calls of generateStoragePaths made on its own, each     *)
(*            with the paths it returned                                  *)
(*   users, inviteCodes, inviteCodeUsage  rows of the three tables        *)
(*   signup   per request: the body, locals and position of the signup    *)
(*            handler that serves it                                      *)
(*   authLimiter  points consumed in the current window of the limiter of *)
(*            the auth routes (one client address)                        *)
(*   nextUserId  what the users table's id default gives next             *)
(*   http     per request: the inputs, locals and position of a request   *)
(*            to an admin or album route, from the middleware on          *)
(*   albums, albumImages  rows of the albums and album_images tables      *)
(***************************************************************************)
VARIABLES objects, images, req, nextUuid, nextImageId, uploadLimiter, started,
          usedNames, derived, planned,
          users, inviteCodes, inviteCodeUsage, signup, authLimiter, nextUserId,
          http, albums, albumImages

siteVars == <<http, albums, albumImages>>

accountVars ==
    <<users, inviteCodes, inviteCodeUsage, signup, authLimiter, nextUserId, siteVars>>

vars == <<objects, images, req, nextUuid, nextImageId, uploadLimiter, started,
          usedNames, derived, planned, accountVars>>

NoResponse == [status |-> 0, success |-> FALSE, error |-> "", message |-> ""]

Json(status, success, error, message) ==
    [status |-> status, success |-> success, error |-> error, message |-> message]

\* A row of the images table, and the data of a successful upload's response:
\* the row with its two signed URLs.
NoImage ==
    [id |-> 0, user_id |-> "", filename |-> "", preview_path |-> "", full_path |-> "",
     mime_type |-> "", width |-> 0, height |-> 0]

NoData == [image |-> NoImage, preview_url |-> "", full_url |-> ""]

IdleRequest ==
    [kind |-> "none", pc |-> "idle", user |-> NoSession, clientIP |-> "",
     admitted |-> FALSE,
     file |-> NoFile,
     target |-> 0, processed |-> NoProcessed,
     previewPath |-> "", fullPath |-> "",
     previewUpload |-> "none", fullUpload |-> "none",
     insert |-> "none", saved |-> 0, savedImage |-> NoImage,
     previewSigned |-> "", fullSigned |-> "",
     previewUrl |-> "", fullUrl |-> "",
     remove |-> "none", calls |-> {}, data |-> NoData, response |-> NoResponse]

NoDerived == [image |-> Undecodable, processed |-> NoProcessed]

(***************************************************************************)
(* getClientIP, and the key the upload handler charges: the user id and    *)
(* the client address, joined by '-'.                                      *)
(***************************************************************************)
getClientIP(headers) ==
    IF headers.forwardedFor # <<>> THEN Head(headers.forwardedFor)
    ELSE IF headers.realIP # "" THEN headers.realIP
    ELSE "unknown"

RateLimitKey(userId, clientIP) == userId \o "-" \o clientIP

UploadKeys ==
    {RateLimitKey(userId, getClientIP(headers)) :
        userId \in Sessions, headers \in HeaderInputs}

(***************************************************************************)
(* Requests to the admin and album routes.  A token is what the session    *)
(* cookie holds: the payload it was signed for, and whether jwtVerify      *)
(* accepts it; NoToken is no cookie.  A pathname is the sequence of its    *)
(* segments: <<"api", "admin", "users">> is /api/admin/users.  access_code *)
(* "" and cover_image_id 0 are null.                                       *)
(***************************************************************************)
NoToken == [userId |-> "", role |-> "", valid |-> FALSE]

generateToken(userId, role) == [userId |-> userId, role |-> role, valid |-> TRUE]

NoHttpRequest ==
    [method |-> "", pathname |-> <<>>, token |-> NoToken, userId |-> "",
     isActive |-> FALSE, max_uses |-> 0, id |-> "", code |-> ""]

NoHttpData == [users |-> {}, inviteCodes |-> {}, images |-> {}, covers |-> {}]

IdleHttp ==
    [pc |-> "idle", request |-> NoHttpRequest,
     album |-> [id |-> "", user_id |-> "", visibility |-> "", access_code |-> "",
                cover_image_id |-> 0],
     calls |-> {}, data |-> NoHttpData, response |-> NoResponse]

InitSite ==
    /\ http = [r \in Requests |-> IdleHttp]
    /\ albums = {}
    /\ albumImages = {}

(***************************************************************************)
(* Accounts.  The tables as a deployment has them once the administrator   *)
(* was set up, made four invite codes of one use each, revoked one, and    *)
(* one member signed up with another; one code has run past its expiry.    *)
(* expires_at is 0 for null; Now is the clock's reading.                   *)
(***************************************************************************)
AUTH_POINTS == 10                    \* authLimiter: points per window and key
Now == 2

InitialUsers ==
    {[id |-> "admin", email |-> "admin@x.io", role |-> "admin", is_active |-> TRUE],
     [id |-> "member", email |-> "taken@x.io", role |-> "user", is_active |-> TRUE]}

InviteCodeRow(code) ==
    [id |-> "invite-" \o code, code |-> code, max_uses |-> 1,
     used_count |-> IF code = "SPENT" THEN 1 ELSE 0,
     expires_at |-> IF code = "EXPIRED" THEN Now - 1 ELSE 0,
     is_active |-> code # "REVOKED"]

InitialInviteCodes ==
    {InviteCodeRow(code) : code \in {"OPEN", "SPENT", "REVOKED", "EXPIRED"}}

NoInviteCode ==
    [id |-> "", code |-> "", max_uses |-> 0, used_count |-> 0, expires_at |-> 0,
     is_active |-> FALSE]

\* Request bodies: at most one field is wrong in each; role is a key the
\* schema does not know.
MalformedBody == [email |-> "", password |-> "", inviteCode |-> "", role |-> "{"]
SignupBodies ==
    {body \in [email : {"new@x.io", "other@x.io", "Taken@x.io", "not-an-email"},
               password : {"Passw0rd", "weak"},
               inviteCode : {"open", "SPENT", "REVOKED", "EXPIRED", "NOCODE", ""},
               role : {"", "admin"}] :
        /\ Cardinality({field \in {"email", "password", "inviteCode"} :
              body[field] \in {"not-an-email", "weak", ""}}) <= 1
        /\ body.role = "admin" => body.email = "new@x.io" /\ body.password = "Passw0rd"}
       \cup {MalformedBody}

NoInviteValidation == [valid |-> FALSE, error |-> "", inviteCode |-> NoInviteCode]

IdleSignup ==
    [pc |-> "idle", body |-> MalformedBody, email |-> "", inviteCode |-> "",
     inviteValidation |-> NoInviteValidation, user |-> "", current |-> 0,
     calls |-> {}, cookie |-> "", response |-> NoResponse]

InitAccounts ==
    /\ users = InitialUsers
    /\ inviteCodes = InitialInviteCodes
    /\ inviteCodeUsage = {[invite_code_id |-> "invite-SPENT", user_id |-> "member"]}
    /\ signup = [r \in Requests |-> IdleSignup]
    /\ authLimiter = 0
    /\ nextUserId = 1
    /\ InitSite

Init ==
    /\ objects = {}
    /\ images = {}
    /\ req = [r \in Requests |-> IdleRequest]
    /\ nextUuid = 1
    /\ nextImageId = 1
    /\ uploadLimiter = [key \in UploadKeys |-> 0]
    /\ started = 0
    /\ usedNames = {}
    /\ derived = NoDerived
    /\ planned = {}
    /\ InitAccounts

\* The same, with one user's key empty or one point short of the limit:
\* earlier uploads that failed validation consume points and leave nothing
\* else behind.
InitIngest ==
    /\ objects = {}
    /\ images = {}
    /\ req = [r \in Requests |-> IdleRequest]
    /\ nextUuid = 1
    /\ nextImageId = 1
    /\ uploadLimiter \in
          {points \in [UploadKeys -> {0, UPLOAD_POINTS - 1}] :
              \A key \in UploadKeys :
                  key \notin {RateLimitKey(userId, getClientIP(NoHeaders)) :
                                 userId \in Uploaders} => points[key] = 0}
    /\ started = 0
    /\ usedNames = {}
    /\ derived = NoDerived
    /\ planned = {}
    /\ InitAccounts

Running == {q \in Requests : req[q].pc # "idle"}

\* Request r arrives next and a handler is available to take it.
Accepts(r) == r = started + 1 /\ Cardinality(Running) < NumSlots

(***************************************************************************)
(* checkUploadRateLimit: uploadLimiter.consume(key, 1) counts the point    *)
(* and rejects once more than UPLOAD_POINTS are consumed in the window.    *)
(***************************************************************************)
checkUploadRateLimit_Lt(key) ==
    [success |-> uploadLimiter[key] + 1 < UPLOAD_POINTS,
     consumed |-> Min(uploadLimiter[key] + 1, UPLOAD_POINTS + 1)]

checkUploadRateLimit(key) ==
    [success |-> uploadLimiter[key] + 1 <= UPLOAD_POINTS,
     consumed |-> Min(uploadLimiter[key] + 1, UPLOAD_POINTS + 1)]

\* The limiter's window for a key runs out.
WindowExpires(key) ==
    /\ uploadLimiter[key] > 0
    /\ uploadLimiter' = [uploadLimiter EXCEPT ![key] = 0]
    /\ UNCHANGED <<objects, images, req, nextUuid, nextImageId, started>>
    /\ UNCHANGED <<usedNames, derived, planned>>
    /\ UNCHANGED accountVars

(***************************************************************************)
(* The error strings of the upload handler's 500 responses: the two it     *)
(* returns itself and the one of its catch block.                          *)
(***************************************************************************)
StorageError_Generic == "Failed to upload image"

StorageError == "Failed to upload image to storage"

MetadataError == "Failed to save image metadata"

CatchAllError == "Failed to upload image"

(***************************************************************************)
(* if (!session): getCurrentUser() found no valid token in the cookie.     *)
(***************************************************************************)
IsAnonymous_Never(session) == FALSE

IsAnonymous(session) == session = NoSession

(***************************************************************************)
(* POST /api/images, up to the await of the two uploads.                   *)
(***************************************************************************)
PostBegin(r, session, headers, file) ==
    /\ Accepts(r)
    /\ started' = started + 1
    /\ LET clientIP == getClientIP(headers)
           key == RateLimitKey(session, clientIP)
           base == [IdleRequest EXCEPT !.kind = "POST", !.user = session,
                                       !.clientIP = clientIP, !.file = file]
           validation == validateImageFile(file)
           processed == processImage(file, uuidv4(nextUuid))
           paths == generateStoragePaths(session, processed.filename)
       IN  IF IsAnonymous(session)
           THEN /\ req' = [req EXCEPT ![r] = [base EXCEPT !.pc = "done",
                               !.response = Json(401, FALSE, "Unauthorized", "")]]
                /\ UNCHANGED <<nextUuid, uploadLimiter, usedNames>>
           ELSE
           /\ uploadLimiter' =
                 [uploadLimiter EXCEPT ![key] = checkUploadRateLimit(key).consumed]
           /\ IF ~checkUploadRateLimit(key).success
              THEN /\ req' = [req EXCEPT ![r] = [base EXCEPT !.pc = "done",
                                  !.response = Json(429, FALSE, "Too many requests", "")]]
                   /\ UNCHANGED <<nextUuid, usedNames>>
              ELSE IF file = NoFile
              THEN /\ req' = [req EXCEPT ![r] = [base EXCEPT !.pc = "done",
                                  !.admitted = TRUE,
                                  !.response = Json(400, FALSE, "No file provided", "")]]
                   /\ UNCHANGED <<nextUuid, usedNames>>
              ELSE IF ~validation.valid
              THEN /\ req' = [req EXCEPT ![r] = [base EXCEPT !.pc = "done",
                                  !.admitted = TRUE,
                                  !.response = Json(400, FALSE, validation.error, "")]]
                   /\ UNCHANGED <<nextUuid, usedNames>>
              ELSE IF processed.threw
              THEN /\ req' = [req EXCEPT ![r] = [base EXCEPT !.pc = "done",
                                  !.admitted = TRUE,
                                  !.calls = {"processImage"},
                                  !.response = Json(500, FALSE, CatchAllError, "")]]
                   /\ nextUuid' = nextUuid + 1
                   /\ usedNames' = usedNames \cup {processed.filename}
              ELSE /\ req' = [req EXCEPT ![r] = [base EXCEPT !.pc = "upload",
                                  !.admitted = TRUE,
                                  !.processed = processed,
                                  !.previewPath = paths.previewPath,
                                  !.fullPath = paths.fullPath,
                                  !.previewUpload = "pending",
                                  !.fullUpload = "pending",
                                  !.calls = {"processImage", "put_preview", "put_full"}]]
                   /\ nextUuid' = nextUuid + 1
                   /\ usedNames' = usedNames \cup {processed.filename}
    /\ UNCHANGED <<objects, images, nextImageId>>
    /\ UNCHANGED <<derived, planned>>
    /\ UNCHANGED accountVars

(***************************************************************************)
(* uploadFile: the bucket settles one put; upsert is false, so a put to    *)
(* an existing path is an error.                                           *)
(***************************************************************************)
PutResult(path, backendOk) ==
    IF backendOk /\ path \notin objects THEN "ok" ELSE "fail"

UploadPreviewSettles(r, backendOk) ==
    /\ req[r].previewUpload = "pending"
    /\ LET result == PutResult(req[r].previewPath, backendOk)
       IN  /\ objects' = IF result = "ok" THEN objects \cup {req[r].previewPath} ELSE objects
           /\ req' = [req EXCEPT ![r].previewUpload = result]
    /\ UNCHANGED <<images, nextUuid, nextImageId, uploadLimiter, started>>
    /\ UNCHANGED <<usedNames, derived, planned>>
    /\ UNCHANGED accountVars

UploadFullSettles(r, backendOk) ==
    /\ req[r].fullUpload = "pending"
    /\ LET result == PutResult(req[r].fullPath, backendOk)
       IN  /\ objects' = IF result = "ok" THEN objects \cup {req[r].fullPath} ELSE objects
           /\ req' = [req EXCEPT ![r].fullUpload = result]
    /\ UNCHANGED <<images, nextUuid, nextImageId, uploadLimiter, started>>
    /\ UNCHANGED <<usedNames, derived, planned>>
    /\ UNCHANGED accountVars

(***************************************************************************)
(* Promise.all over the two uploads, then the success test.                *)
(***************************************************************************)
AnySettled(r) ==
    \/ req[r].previewUpload \in {"ok", "fail"}
    \/ req[r].fullUpload \in {"ok", "fail"}

BothSettled(r) ==
    /\ req[r].previewUpload \in {"ok", "fail"}
    /\ req[r].fullUpload \in {"ok", "fail"}

UploadsFailed_And(r) ==
    req[r].previewUpload # "ok" /\ req[r].fullUpload # "ok"

UploadsFailed(r) ==
    req[r].previewUpload # "ok" \/ req[r].fullUpload # "ok"

PostJoin(r) ==
    /\ req[r].kind = "POST"
    /\ req[r].pc = "upload"
    /\ BothSettled(r)
    /\ IF UploadsFailed(r)
       THEN req' = [req EXCEPT ![r].pc = "done",
                       ![r].response = Json(500, FALSE, StorageError, "")]
       ELSE req' = [req EXCEPT ![r].pc = "insert",
                       ![r].insert = "pending",
                       ![r].calls = @ \cup {"insert"}]
    /\ UNCHANGED <<objects, images, nextUuid, nextImageId, uploadLimiter, started>>
    /\ UNCHANGED <<usedNames, derived, planned>>
    /\ UNCHANGED accountVars

(***************************************************************************)
(* saveImageMetadata: the insert settles; null on error.                   *)
(***************************************************************************)
ImageRow_DeclaredType(id, r) ==
    [id |-> id, user_id |-> req[r].user, filename |-> req[r].processed.filename,
     preview_path |-> req[r].previewPath, full_path |-> req[r].fullPath,
     mime_type |-> req[r].file.type,
     width |-> req[r].processed.full.width, height |-> req[r].processed.full.height]

ImageRow(id, r) ==
    [id |-> id, user_id |-> req[r].user, filename |-> req[r].processed.filename,
     preview_path |-> req[r].previewPath, full_path |-> req[r].fullPath,
     mime_type |-> "image/webp",
     width |-> req[r].processed.full.width, height |-> req[r].processed.full.height]

PostInsert(r, dbOk) ==
    /\ req[r].kind = "POST"
    /\ req[r].pc = "insert"
    /\ IF dbOk
       THEN /\ images' = images \cup {ImageRow(nextImageId, r)}
            /\ nextImageId' = nextImageId + 1
            /\ req' = [req EXCEPT ![r].pc = "signPreview",
                           ![r].insert = "ok",
                           ![r].saved = nextImageId,
                           ![r].savedImage = ImageRow(nextImageId, r),
                           ![r].calls = @ \cup {"sign_preview"}]
       ELSE /\ req' = [req EXCEPT ![r].pc = "done",
                           ![r].insert = "fail",
                           ![r].response = Json(500, FALSE, MetadataError, "")]
            /\ UNCHANGED <<images, nextImageId>>
    /\ UNCHANGED <<objects, nextUuid, uploadLimiter, started>>
    /\ UNCHANGED <<usedNames, derived, planned>>
    /\ UNCHANGED accountVars

(***************************************************************************)
(* getSignedUrl: the signed URL, or null on error.  The handler turns null *)
(* into '' and answers with the saved row and the two URLs.                *)
(***************************************************************************)
null == "<null>"

getSignedUrl(path, backendOk) ==
    IF backendOk /\ path \in objects THEN "signed:" \o path ELSE null

OrEmpty(url) == IF url = null THEN "" ELSE url

UploadSucceeded_SignedOnly(previewUrl, fullUrl) ==
    IF previewUrl = "" \/ fullUrl = ""
    THEN Json(500, FALSE, CatchAllError, "")
    ELSE Json(200, TRUE, "", "Image uploaded successfully")

UploadSucceeded_FullUrlRequired(previewUrl, fullUrl) ==
    IF fullUrl = ""
    THEN Json(500, FALSE, CatchAllError, "")
    ELSE Json(200, TRUE, "", "Image uploaded successfully")

UploadSucceeded(previewUrl, fullUrl) ==
    Json(200, TRUE, "", "Image uploaded successfully")

PostSignPreview(r, backendOk) ==
    /\ req[r].kind = "POST"
    /\ req[r].pc = "signPreview"
    /\ LET signed == getSignedUrl(req[r].previewPath, backendOk)
       IN  req' = [req EXCEPT ![r].pc = "signFull",
                       ![r].previewSigned = signed,
                       ![r].previewUrl = OrEmpty(signed),
                       ![r].calls = @ \cup {"sign_full"}]
    /\ UNCHANGED <<objects, images, nextUuid, nextImageId, uploadLimiter, started>>
    /\ UNCHANGED <<usedNames, derived, planned>>
    /\ UNCHANGED accountVars

PostSignFull(r, backendOk) ==
    /\ req[r].kind = "POST"
    /\ req[r].pc = "signFull"
    /\ LET signed == getSignedUrl(req[r].fullPath, backendOk)
           fullUrl == OrEmpty(signed)
       IN  req' = [req EXCEPT ![r].pc = "done",
                       ![r].fullSigned = signed,
                       ![r].fullUrl = fullUrl,
                       ![r].data = [image |-> req[r].savedImage,
                                    preview_url |-> req[r].previewUrl,
                                    full_url |-> fullUrl],
                       ![r].response = UploadSucceeded(req[r].previewUrl, fullUrl)]
    /\ UNCHANGED <<objects, images, nextUuid, nextImageId, uploadLimiter, started>>
    /\ UNCHANGED <<usedNames, derived, planned>>
    /\ UNCHANGED accountVars

(***************************************************************************)
(* DELETE /api/images/[id].                                                *)
(***************************************************************************)
DeleteBegin(r, session, id) ==
    /\ Accepts(r)
    /\ started' = started + 1
    /\ LET base == [IdleRequest EXCEPT !.kind = "DELETE", !.user = session, !.target = id]
       IN  IF session = NoSession
           THEN req' = [req EXCEPT ![r] = [base EXCEPT !.pc = "done",
                           !.response = Json(401, FALSE, "Unauthorized", "")]]
           ELSE req' = [req EXCEPT ![r] = [base EXCEPT !.pc = "select",
                           !.calls = {"select"}]]
    /\ UNCHANGED <<objects, images, nextUuid, nextImageId, uploadLimiter>>
    /\ UNCHANGED <<usedNames, derived, planned>>
    /\ UNCHANGED accountVars

(***************************************************************************)
(* deleteImage: select the row's paths by id and user_id, then delete the  *)
(* row by id and user_id; null when the select finds nothing or errs, or   *)
(* when the delete errs.                                                   *)
(***************************************************************************)
OwnedRows_AnyOwner(id, userId) == {img \in images : img.id = id}

OwnedRows(id, userId) == {img \in images : img.id = id /\ img.user_id = userId}

NotFound == Json(404, FALSE, "Image not found or already deleted", "")

DeleteSelect(r, dbOk) ==
    /\ req[r].kind = "DELETE"
    /\ req[r].pc = "select"
    /\ LET rows == OwnedRows(req[r].target, req[r].user)
       IN  IF dbOk /\ rows # {}
           THEN LET image == CHOOSE img \in rows : TRUE
                IN  req' = [req EXCEPT ![r].pc = "deleteRow",
                                ![r].previewPath = image.preview_path,
                                ![r].fullPath = image.full_path,
                                ![r].calls = @ \cup {"delete_row"}]
           ELSE req' = [req EXCEPT ![r].pc = "done", ![r].response = NotFound]
    /\ UNCHANGED <<objects, images, nextUuid, nextImageId, uploadLimiter, started>>
    /\ UNCHANGED <<usedNames, derived, planned>>
    /\ UNCHANGED accountVars

deleteImageReturnsPaths_Always(dbOk) == TRUE

deleteImageReturnsPaths(dbOk) == dbOk

DeleteRow(r, dbOk) ==
    /\ req[r].kind = "DELETE"
    /\ req[r].pc = "deleteRow"
    /\ images' = IF dbOk THEN images \ OwnedRows(req[r].target, req[r].user) ELSE images
    /\ IF deleteImageReturnsPaths(dbOk)
       THEN req' = [req EXCEPT ![r].pc = "remove",
                       ![r].remove = "pending",
                       ![r].calls = @ \cup {"remove"}]
       ELSE req' = [req EXCEPT ![r].pc = "done", ![r].response = NotFound]
    /\ UNCHANGED <<objects, nextUuid, nextImageId, uploadLimiter, started>>
    /\ UNCHANGED <<usedNames, derived, planned>>
    /\ UNCHANGED accountVars

(***************************************************************************)
(* deleteFiles, whose result the handler does not look at.                 *)
(***************************************************************************)
DeleteFiles(r, backendOk) ==
    /\ req[r].kind = "DELETE"
    /\ req[r].pc = "remove"
    /\ objects' = IF backendOk
                  THEN objects \ {req[r].previewPath, req[r].fullPath}
                  ELSE objects
    /\ req' = [req EXCEPT ![r].pc = "done",
                   ![r].remove = IF backendOk THEN "ok" ELSE "fail",
                   ![r].response = Json(200, TRUE, "", "Image deleted successfully")]
    /\ UNCHANGED <<images, nextUuid, nextImageId, uploadLimiter, started>>
    /\ UNCHANGED <<usedNames, derived, planned>>
    /\ UNCHANGED accountVars

(***************************************************************************)
(* The handler has returned: its response goes out and its locals are      *)
(* dropped.  Nothing else is interleaved between a handler's last step and *)
(* this one (NoneFinished below): the step touches no shared state, so     *)
(* taking it first loses no state of the store, the table or any handler.  *)
(***************************************************************************)
Respond(r) ==
    /\ req[r].pc = "done"
    /\ req' = [req EXCEPT ![r] = IdleRequest]
    /\ UNCHANGED <<objects, images, nextUuid, nextImageId, uploadLimiter, started>>
    /\ UNCHANGED <<usedNames, derived, planned>>
    /\ UNCHANGED accountVars

NoneFinished == \A q \in Requests : req[q].pc # "done"

(***************************************************************************)
(* The system: concurrent uploads and deletes of well-formed files.        *)
(***************************************************************************)
Next ==
    \E r \in Requests :
        \/ Respond(r)
        \/ /\ NoneFinished
           /\ \/ \E session \in Uploaders, file \in GoodFiles :
                    PostBegin(r, session, NoHeaders, file)
              \/ \E backendOk \in BOOLEAN : UploadPreviewSettles(r, backendOk)
              \/ \E backendOk \in BOOLEAN : UploadFullSettles(r, backendOk)
              \/ PostJoin(r)
              \/ \E dbOk \in BOOLEAN : PostInsert(r, dbOk)
              \/ \E backendOk \in BOOLEAN : PostSignPreview(r, backendOk)
              \/ \E backendOk \in BOOLEAN : PostSignFull(r, backendOk)
              \/ \E session \in Sessions, id \in ImageIds : DeleteBegin(r, session, id)
              \/ \E dbOk \in BOOLEAN : DeleteSelect(r, dbOk)
              \/ \E dbOk \in BOOLEAN : DeleteRow(r, dbOk)
              \/ \E backendOk \in BOOLEAN : DeleteFiles(r, backendOk)

Spec == Init /\ [][Next]_vars

(***************************************************************************)
(* One upload after another, over every kind of request body.              *)
(***************************************************************************)
NextIngest ==
    \/ \E r \in Requests :
          \/ Respond(r)
          \/ /\ Running = {}
             /\ \E session \in Sessions, file \in Files \cup {NoFile} :
                   PostBegin(r, session, NoHeaders, file)
          \/ \E backendOk \in BOOLEAN : UploadPreviewSettles(r, backendOk)
          \/ \E backendOk \in BOOLEAN : UploadFullSettles(r, backendOk)
          \/ PostJoin(r)
          \/ \E dbOk \in BOOLEAN : PostInsert(r, dbOk)
          \/ \E backendOk \in BOOLEAN : PostSignPreview(r, backendOk)
          \/ \E backendOk \in BOOLEAN : PostSignFull(r, backendOk)
    \/ /\ NoneFinished
       /\ \E key \in UploadKeys : WindowExpires(key)

SpecIngest == InitIngest /\ [][NextIngest]_vars

(***************************************************************************)
(* Uploads one after another from several client addresses: no file, a     *)
(* file that fails validation, and a good file; the bucket and the         *)
(* database do as asked.  Each key of one user starts empty or one point   *)
(* short of the limit.                                                     *)
(***************************************************************************)
LimiterFiles ==
    {NoFile, [type |-> "application/pdf", size |-> MAX_FILE_SIZE, image |-> Undecodable]}
       \cup GoodFiles

InitLimiter ==
    /\ objects = {}
    /\ images = {}
    /\ req = [r \in Requests |-> IdleRequest]
    /\ nextUuid = 1
    /\ nextImageId = 1
    /\ uploadLimiter \in
          {points \in [UploadKeys -> {0, UPLOAD_POINTS - 1}] :
              \A key \in UploadKeys :
                  key \notin {RateLimitKey(userId, getClientIP(headers)) :
                                 userId \in Uploaders, headers \in HeaderInputs}
                     => points[key] = 0}
    /\ started = 0
    /\ usedNames = {}
    /\ derived = NoDerived
    /\ planned = {}
    /\ InitAccounts

NextLimiter ==
    \/ \E r \in Requests :
          \/ Respond(r)
          \/ /\ Running = {}
             /\ \E session \in Sessions, headers \in HeaderInputs, file \in LimiterFiles :
                   PostBegin(r, session, headers, file)
          \/ \E backendOk \in {TRUE} : UploadPreviewSettles(r, backendOk)
          \/ \E backendOk \in {TRUE} : UploadFullSettles(r, backendOk)
          \/ PostJoin(r)
          \/ \E dbOk \in {TRUE} : PostInsert(r, dbOk)
          \/ \E backendOk \in {TRUE} : PostSignPreview(r, backendOk)
          \/ \E backendOk \in {TRUE} : PostSignFull(r, backendOk)
    \/ /\ NoneFinished
       /\ \E key \in UploadKeys : WindowExpires(key)

SpecLimiter == InitLimiter /\ [][NextLimiter]_vars

(***************************************************************************)
(* processImage on its own, over DeriveInputs.                             *)
(***************************************************************************)
ProcessImage(image) ==
    /\ nextUuid <= MaxRequests
    /\ LET file == [type |-> "image/jpeg", size |-> 1, image |-> image]
           processed == processImage(file, uuidv4(nextUuid))
       IN  /\ derived' = [image |-> image, processed |-> processed]
           /\ usedNames' = usedNames \cup {processed.filename}
    /\ nextUuid' = nextUuid + 1
    /\ UNCHANGED <<objects, images, req, nextImageId, uploadLimiter, started, planned>>
    /\ UNCHANGED accountVars

NextDerive == \E image \in DeriveInputs : ProcessImage(image)

SpecDerive == Init /\ [][NextDerive]_vars

(***************************************************************************)
(* generateStoragePaths on its own, over OwnerInputs and FilenameInputs.   *)
(***************************************************************************)
Plan(userId, filename) ==
    /\ Cardinality(planned) < MaxPlans
    /\ planned' = planned \cup
          {[userId |-> userId, filename |-> filename,
            paths |-> generateStoragePaths(userId, filename)]}
    /\ UNCHANGED <<objects, images, req, nextUuid, nextImageId, uploadLimiter, started>>
    /\ UNCHANGED <<usedNames, derived>>
    /\ UNCHANGED accountVars

NextPaths == \E userId \in OwnerInputs, filename \in FilenameInputs : Plan(userId, filename)

SpecPaths == Init /\ [][NextPaths]_vars

(***************************************************************************)
(* POST /api/auth/signup.                                                  *)
(***************************************************************************)
photoVars ==
    <<objects, images, req, nextUuid, nextImageId, uploadLimiter, usedNames,
      derived, planned>>

SignupRunning == {q \in Requests : signup[q].pc # "idle"}

checkAuthRateLimit ==
    [success |-> authLimiter + 1 <= AUTH_POINTS,
     consumed |-> Min(authLimiter + 1, AUTH_POINTS + 1)]

\* String.toLowerCase, String.toUpperCase and String.trim, on the strings of
\* SignupBodies and on the codes given to an album.
toLowerCase(string) == IF string = "Taken@x.io" THEN "taken@x.io" ELSE string
toUpperCase(string) ==
    IF string = "open" THEN "OPEN"
    ELSE IF string = " secret12 " THEN " SECRET12 "
    ELSE string
trim(string) == IF string = " SECRET12 " THEN "SECRET12" ELSE string

\* signupSchema.safeParse: the message of the first issue, or the data.
signupSchema(body) ==
    IF body.email = "not-an-email"
    THEN [success |-> FALSE, error |-> "Please enter a valid email address",
          email |-> "", inviteCode |-> ""]
    ELSE IF body.password = "weak"
    THEN [success |-> FALSE, error |-> "Password must be at least 8 characters",
          email |-> "", inviteCode |-> ""]
    ELSE IF body.inviteCode = ""
    THEN [success |-> FALSE, error |-> "Invite code is required",
          email |-> "", inviteCode |-> ""]
    ELSE [success |-> TRUE, error |-> "",
          email |-> toLowerCase(body.email), inviteCode |-> toUpperCase(body.inviteCode)]

SignupBegin(r, body) ==
    /\ r = started + 1
    /\ Cardinality(SignupRunning) < NumSlots
    /\ started' = started + 1
    /\ authLimiter' = checkAuthRateLimit.consumed
    /\ LET base == [IdleSignup EXCEPT !.body = body]
           validation == signupSchema(body)
       IN  IF ~checkAuthRateLimit.success
           THEN signup' = [signup EXCEPT ![r] = [base EXCEPT !.pc = "done",
                               !.response = Json(429, FALSE, "Too many requests", "")]]
           ELSE IF body = MalformedBody
           THEN signup' = [signup EXCEPT ![r] = [base EXCEPT !.pc = "done",
                               !.response = Json(500, FALSE, "An unexpected error occurred", "")]]
           ELSE IF ~validation.success
           THEN signup' = [signup EXCEPT ![r] = [base EXCEPT !.pc = "done",
                               !.response = Json(400, FALSE, validation.error, "")]]
           ELSE signup' = [signup EXCEPT ![r] = [base EXCEPT !.pc = "findInvite",
                               !.email = validation.email,
                               !.inviteCode = validation.inviteCode,
                               !.calls = {"findInviteCode"}]]
    /\ UNCHANGED <<users, inviteCodes, inviteCodeUsage, nextUserId>>
    /\ UNCHANGED photoVars
    /\ UNCHANGED siteVars

(***************************************************************************)
(* validateInviteCode: findInviteCode, null on error or when no row has    *)
(* the code, then the checks in the order of the code.                     *)
(***************************************************************************)
findInviteCode(code, dbOk) ==
    LET rows == {row \in inviteCodes : row.code = toUpperCase(code)}
    IN  IF dbOk /\ rows # {} THEN CHOOSE row \in rows : TRUE ELSE NoInviteCode

validateInviteCode_Gt(inviteCode) ==
    IF inviteCode = NoInviteCode
    THEN [NoInviteValidation EXCEPT !.error = "Invalid invite code"]
    ELSE IF ~inviteCode.is_active
    THEN [NoInviteValidation EXCEPT !.error = "This invite code has been deactivated"]
    ELSE IF inviteCode.used_count > inviteCode.max_uses
    THEN [NoInviteValidation EXCEPT !.error = "This invite code has reached its usage limit"]
    ELSE IF inviteCode.expires_at # 0 /\ inviteCode.expires_at < Now
    THEN [NoInviteValidation EXCEPT !.error = "This invite code has expired"]
    ELSE [valid |-> TRUE, error |-> "", inviteCode |-> inviteCode]

validateInviteCode(inviteCode) ==
    IF inviteCode = NoInviteCode
    THEN [NoInviteValidation EXCEPT !.error = "Invalid invite code"]
    ELSE IF ~inviteCode.is_active
    THEN [NoInviteValidation EXCEPT !.error = "This invite code has been deactivated"]
    ELSE IF inviteCode.used_count >= inviteCode.max_uses
    THEN [NoInviteValidation EXCEPT !.error = "This invite code has reached its usage limit"]
    ELSE IF inviteCode.expires_at # 0 /\ inviteCode.expires_at < Now
    THEN [NoInviteValidation EXCEPT !.error = "This invite code has expired"]
    ELSE [valid |-> TRUE, error |-> "", inviteCode |-> inviteCode]

SignupValidateInvite(r, dbOk) ==
    /\ signup[r].pc = "findInvite"
    /\ LET inviteValidation == validateInviteCode(findInviteCode(signup[r].inviteCode, dbOk))
       IN  IF ~inviteValidation.valid
           THEN signup' = [signup EXCEPT ![r].pc = "done",
                               ![r].inviteValidation = inviteValidation,
                               ![r].response = Json(400, FALSE, inviteValidation.error, "")]
           ELSE signup' = [signup EXCEPT ![r].pc = "findUser",
                               ![r].inviteValidation = inviteValidation,
                               ![r].calls = @ \cup {"findUserByEmail"}]
    /\ UNCHANGED <<users, inviteCodes, inviteCodeUsage, authLimiter, nextUserId, started>>
    /\ UNCHANGED photoVars
    /\ UNCHANGED siteVars

\* findUserByEmail: null on error, so an error reads as "no such user".
SignupFindUser(r, dbOk) ==
    /\ signup[r].pc = "findUser"
    /\ IF dbOk /\ \E user \in users : user.email = toLowerCase(signup[r].email)
       THEN signup' = [signup EXCEPT ![r].pc = "done",
                           ![r].response =
                               Json(409, FALSE, "An account with this email already exists", "")]
       ELSE signup' = [signup EXCEPT ![r].pc = "createUser",
                           ![r].calls = @ \cup {"createUser"}]
    /\ UNCHANGED <<users, inviteCodes, inviteCodeUsage, authLimiter, nextUserId, started>>
    /\ UNCHANGED photoVars
    /\ UNCHANGED siteVars

\* createUser with role 'user'; the insert fails on an error of the database
\* and on an email that a row already has (UNIQUE).
SignupCreateUser(r, dbOk) ==
    /\ signup[r].pc = "createUser"
    /\ IF dbOk /\ ~\E user \in users : user.email = toLowerCase(signup[r].email)
       THEN LET id == "user" \o ToString(nextUserId)
            IN  /\ users' = users \cup
                      {[id |-> id, email |-> toLowerCase(signup[r].email), role |-> "user",
                        is_active |-> TRUE]}
                /\ nextUserId' = nextUserId + 1
                /\ signup' = [signup EXCEPT ![r].pc = "incrementRpc",
                                   ![r].user = id,
                                   ![r].calls = @ \cup {"incrementInviteCodeUsage"}]
       ELSE /\ signup' = [signup EXCEPT ![r].pc = "done",
                               ![r].response =
                                   Json(500, FALSE, "Failed to create account. Please try again.", "")]
            /\ UNCHANGED <<users, nextUserId>>
    /\ UNCHANGED <<inviteCodes, inviteCodeUsage, authLimiter, started>>
    /\ UNCHANGED photoVars
    /\ UNCHANGED siteVars

(***************************************************************************)
(* incrementInviteCodeUsage: the increment_invite_usage function; when it  *)
(* errs an update whose value is a query builder, which the database       *)
(* rejects; then a read of used_count and an update that applies when      *)
(* used_count is still what was read; then the row of invite_code_usage.   *)
(* No result is looked at.                                                 *)
(***************************************************************************)
WithUsedCount(id, count) ==
    {IF row.id = id THEN [row EXCEPT !.used_count = count] ELSE row : row \in inviteCodes}

UsedCount(id) == (CHOOSE row \in inviteCodes : row.id = id).used_count

SignupIncrementRpc(r, dbOk) ==
    /\ signup[r].pc = "incrementRpc"
    /\ LET id == signup[r].inviteValidation.inviteCode.id
       IN  IF dbOk
           THEN /\ inviteCodes' = WithUsedCount(id, UsedCount(id) + 1)
                /\ signup' = [signup EXCEPT ![r].pc = "recordUsage"]
           ELSE /\ signup' = [signup EXCEPT ![r].pc = "incrementUpdate",
                                   ![r].calls = @ \cup {"update"}]
                /\ UNCHANGED inviteCodes
    /\ UNCHANGED <<users, inviteCodeUsage, authLimiter, nextUserId, started>>
    /\ UNCHANGED photoVars
    /\ UNCHANGED siteVars

SignupIncrementUpdate(r) ==
    /\ signup[r].pc = "incrementUpdate"
    /\ signup' = [signup EXCEPT ![r].pc = "incrementRead",
                       ![r].calls = @ \cup {"select"}]
    /\ UNCHANGED <<users, inviteCodes, inviteCodeUsage, authLimiter, nextUserId, started>>
    /\ UNCHANGED photoVars
    /\ UNCHANGED siteVars

SignupIncrementRead(r, dbOk) ==
    /\ signup[r].pc = "incrementRead"
    /\ IF dbOk
       THEN signup' = [signup EXCEPT ![r].pc = "incrementWrite",
                           ![r].current =
                               UsedCount(signup[r].inviteValidation.inviteCode.id),
                           ![r].calls = @ \cup {"update_if_unchanged"}]
       ELSE signup' = [signup EXCEPT ![r].pc = "recordUsage"]
    /\ UNCHANGED <<users, inviteCodes, inviteCodeUsage, authLimiter, nextUserId, started>>
    /\ UNCHANGED photoVars
    /\ UNCHANGED siteVars

SignupIncrementWrite(r, dbOk) ==
    /\ signup[r].pc = "incrementWrite"
    /\ LET id == signup[r].inviteValidation.inviteCode.id
       IN  inviteCodes' = IF dbOk /\ UsedCount(id) = signup[r].current
                          THEN WithUsedCount(id, signup[r].current + 1)
                          ELSE inviteCodes
    /\ signup' = [signup EXCEPT ![r].pc = "recordUsage"]
    /\ UNCHANGED <<users, inviteCodeUsage, authLimiter, nextUserId, started>>
    /\ UNCHANGED photoVars
    /\ UNCHANGED siteVars

\* The audit row, then generateToken, setAuthCookie and the response.
SignupRecordUsage(r, dbOk) ==
    /\ signup[r].pc = "recordUsage"
    /\ inviteCodeUsage' =
          IF dbOk
          THEN inviteCodeUsage \cup
                  {[invite_code_id |-> signup[r].inviteValidation.inviteCode.id,
                    user_id |-> signup[r].user]}
          ELSE inviteCodeUsage
    /\ signup' = [signup EXCEPT ![r].pc = "done",
                       ![r].cookie = signup[r].user,
                       ![r].calls = @ \cup {"setAuthCookie"},
                       ![r].response = Json(200, TRUE, "", "Account created successfully")]
    /\ UNCHANGED <<users, inviteCodes, authLimiter, nextUserId, started>>
    /\ UNCHANGED photoVars
    /\ UNCHANGED siteVars

SignupRespond(r) ==
    /\ signup[r].pc = "done"
    /\ signup' = [signup EXCEPT ![r] = IdleSignup]
    /\ UNCHANGED <<users, inviteCodes, inviteCodeUsage, authLimiter, nextUserId, started>>
    /\ UNCHANGED photoVars
    /\ UNCHANGED siteVars

(***************************************************************************)
(* One signup after another, over every kind of body; the limiter starts   *)
(* empty or one point short of its limit.                                  *)
(***************************************************************************)
InitSignup ==
    /\ objects = {}
    /\ images = {}
    /\ req = [r \in Requests |-> IdleRequest]
    /\ nextUuid = 1
    /\ nextImageId = 1
    /\ uploadLimiter = [key \in UploadKeys |-> 0]
    /\ started = 0
    /\ usedNames = {}
    /\ derived = NoDerived
    /\ planned = {}
    /\ users = InitialUsers
    /\ inviteCodes = InitialInviteCodes
    /\ inviteCodeUsage = {[invite_code_id |-> "invite-SPENT", user_id |-> "member"]}
    /\ signup = [r \in Requests |-> IdleSignup]
    /\ authLimiter \in {0, AUTH_POINTS - 1}
    /\ nextUserId = 1
    /\ InitSite

NextSignup ==
    \E r \in Requests :
        \/ SignupRespond(r)
        \/ /\ SignupRunning = {}
           /\ \E body \in SignupBodies : SignupBegin(r, body)
        \/ \E dbOk \in BOOLEAN : SignupValidateInvite(r, dbOk)
        \/ \E dbOk \in BOOLEAN : SignupFindUser(r, dbOk)
        \/ \E dbOk \in BOOLEAN : SignupCreateUser(r, dbOk)
        \/ \E dbOk \in BOOLEAN : SignupIncrementRpc(r, dbOk)
        \/ SignupIncrementUpdate(r)
        \/ \E dbOk \in BOOLEAN : SignupIncrementRead(r, dbOk)
        \/ \E dbOk \in BOOLEAN : SignupIncrementWrite(r, dbOk)
        \/ \E dbOk \in BOOLEAN : SignupRecordUsage(r, dbOk)

SpecSignup == InitSignup /\ [][NextSignup]_vars

(***************************************************************************)
(* Signups that run at the same time, each with a well-formed body, an     *)
(* email of its own and the one invite code that is still usable.          *)
(***************************************************************************)
RaceBodies ==
    {[email |-> email, password |-> "Passw0rd", inviteCode |-> "OPEN", role |-> ""] :
        email \in {"new@x.io", "other@x.io"}}

NextSignupRace ==
    \E r \in Requests :
        \/ SignupRespond(r)
        \/ \E body \in RaceBodies : SignupBegin(r, body)
        \/ \E dbOk \in BOOLEAN : SignupValidateInvite(r, dbOk)
        \/ \E dbOk \in BOOLEAN : SignupFindUser(r, dbOk)
        \/ \E dbOk \in BOOLEAN : SignupCreateUser(r, dbOk)
        \/ \E dbOk \in BOOLEAN : SignupIncrementRpc(r, dbOk)
        \/ SignupIncrementUpdate(r)
        \/ \E dbOk \in BOOLEAN : SignupIncrementRead(r, dbOk)
        \/ \E dbOk \in BOOLEAN : SignupIncrementWrite(r, dbOk)
        \/ \E dbOk \in BOOLEAN : SignupRecordUsage(r, dbOk)

SpecSignupRace == Init /\ [][NextSignupRace]_vars

(***************************************************************************)
(* GET /api/images/[id]: getImageById selects the row by id and user_id,   *)
(* null when there is none or the select errs; then the two signed URLs.   *)
(***************************************************************************)
ImageNotFound == Json(404, FALSE, "Image not found", "")

GetBegin(r, session, id) ==
    /\ Accepts(r)
    /\ started' = started + 1
    /\ LET base == [IdleRequest EXCEPT !.kind = "GET", !.user = session, !.target = id]
       IN  IF IsAnonymous(session)
           THEN req' = [req EXCEPT ![r] = [base EXCEPT !.pc = "done",
                           !.response = Json(401, FALSE, "Unauthorized", "")]]
           ELSE req' = [req EXCEPT ![r] = [base EXCEPT !.pc = "getImage",
                           !.calls = {"select"}]]
    /\ UNCHANGED <<objects, images, nextUuid, nextImageId, uploadLimiter>>
    /\ UNCHANGED <<usedNames, derived, planned>>
    /\ UNCHANGED accountVars

GetImageById(r, dbOk) ==
    /\ req[r].kind = "GET"
    /\ req[r].pc = "getImage"
    /\ LET rows == OwnedRows(req[r].target, req[r].user)
       IN  IF dbOk /\ rows # {}
           THEN LET image == CHOOSE img \in rows : TRUE
                IN  req' = [req EXCEPT ![r].pc = "signPreview",
                                ![r].savedImage = image,
                                ![r].previewPath = image.preview_path,
                                ![r].fullPath = image.full_path,
                                ![r].calls = @ \cup {"sign_preview"}]
           ELSE req' = [req EXCEPT ![r].pc = "done", ![r].response = ImageNotFound]
    /\ UNCHANGED <<objects, images, nextUuid, nextImageId, uploadLimiter, started>>
    /\ UNCHANGED <<usedNames, derived, planned>>
    /\ UNCHANGED accountVars

GetSignPreview(r, backendOk) ==
    /\ req[r].kind = "GET"
    /\ req[r].pc = "signPreview"
    /\ LET signed == getSignedUrl(req[r].previewPath, backendOk)
       IN  req' = [req EXCEPT ![r].pc = "signFull",
                       ![r].previewSigned = signed,
                       ![r].previewUrl = OrEmpty(signed),
                       ![r].calls = @ \cup {"sign_full"}]
    /\ UNCHANGED <<objects, images, nextUuid, nextImageId, uploadLimiter, started>>
    /\ UNCHANGED <<usedNames, derived, planned>>
    /\ UNCHANGED accountVars

GetSignFull(r, backendOk) ==
    /\ req[r].kind = "GET"
    /\ req[r].pc = "signFull"
    /\ LET signed == getSignedUrl(req[r].fullPath, backendOk)
           fullUrl == OrEmpty(signed)
       IN  req' = [req EXCEPT ![r].pc = "done",
                       ![r].fullSigned = signed,
                       ![r].fullUrl = fullUrl,
                       ![r].data = [image |-> req[r].savedImage,
                                    preview_url |-> req[r].previewUrl,
                                    full_url |-> fullUrl],
                       ![r].response = Json(200, TRUE, "", "")]
    /\ UNCHANGED <<objects, images, nextUuid, nextImageId, uploadLimiter, started>>
    /\ UNCHANGED <<usedNames, derived, planned>>
    /\ UNCHANGED accountVars

(***************************************************************************)
(* Concurrent reads and deletes over a library: each user has uploaded one *)
(* picture (ids 1 and 2), both renditions of each are stored.              *)
(***************************************************************************)
LibraryRow(id, userId) ==
    LET filename == uuidv4(id) \o ".webp"
        paths == generateStoragePaths(userId, filename)
    IN  [id |-> id, user_id |-> userId, filename |-> filename,
         preview_path |-> paths.previewPath, full_path |-> paths.fullPath,
         mime_type |-> "image/webp", width |-> 2000, height |-> 1500]

Library == {LibraryRow(1, "u1"), LibraryRow(2, "u2")}

InitLibrary ==
    /\ objects = UNION {{img.preview_path, img.full_path} : img \in Library}
    /\ images = Library
    /\ req = [r \in Requests |-> IdleRequest]
    /\ nextUuid = 3
    /\ nextImageId = 3
    /\ uploadLimiter =
          [key \in UploadKeys |->
              IF \E userId \in Users : key = RateLimitKey(userId, getClientIP(NoHeaders))
              THEN 1 ELSE 0]
    /\ started = 0
    /\ usedNames = {img.filename : img \in Library}
    /\ derived = NoDerived
    /\ planned = {}
    /\ InitAccounts

NextLibrary ==
    \E r \in Requests :
        \/ Respond(r)
        \/ /\ NoneFinished
           /\ \/ \E session \in Sessions, id \in ImageIds : GetBegin(r, session, id)
              \/ \E dbOk \in BOOLEAN : GetImageById(r, dbOk)
              \/ \E backendOk \in BOOLEAN : GetSignPreview(r, backendOk)
              \/ \E backendOk \in BOOLEAN : GetSignFull(r, backendOk)
              \/ \E session \in Sessions, id \in ImageIds : DeleteBegin(r, session, id)
              \/ \E dbOk \in BOOLEAN : DeleteSelect(r, dbOk)
              \/ \E dbOk \in BOOLEAN : DeleteRow(r, dbOk)
              \/ \E backendOk \in BOOLEAN : DeleteFiles(r, backendOk)

SpecLibrary == InitLibrary /\ [][NextLibrary]_vars

(***************************************************************************)
(* The middleware.  Strings are whole values here, so the two facts about  *)
(* a segment's characters that the code looks at are tables: whether it    *)
(* contains a dot, and whether it begins with the text of another.         *)
(***************************************************************************)
HasDot(segment) == segment \in {"users.json", "favicon.ico"}

BeginsWith(segment, prefix) ==
    segment = prefix \/ (prefix = "admin" /\ segment = "administrator")

\* pathname.startsWith(route), route without a trailing slash.
startsWith(pathname, route) ==
    /\ Len(pathname) >= Len(route)
    /\ \A i \in 1..(Len(route) - 1) : pathname[i] = route[i]
    /\ BeginsWith(pathname[Len(route)], route[Len(route)])

protectedApiRoutes == {<<"api", "images">>, <<"api", "user">>, <<"api", "albums">>}
adminApiRoutes == {<<"api", "admin">>}

\* config.matcher: the paths the middleware runs for.  The lookahead rejects
\* a path that begins with _next/static, _next/image, favicon.ico or public,
\* and a path with a dot anywhere.
matcher(pathname) ==
    /\ ~\E i \in DOMAIN pathname : HasDot(pathname[i])
    /\ ~BeginsWith(pathname[1], "public")
    /\ ~(Len(pathname) >= 2 /\ pathname[1] = "_next"
            /\ (BeginsWith(pathname[2], "static") \/ BeginsWith(pathname[2], "image")))

verifyToken(token) == IF token.valid THEN token ELSE NoToken

getCurrentUser(token) == IF token = NoToken THEN NoToken ELSE verifyToken(token)

\* requiredRole "" is the call without a role.
verifyRoleFromRequest_AnyRole(token, requiredRole) ==
    IF token = NoToken \/ verifyToken(token) = NoToken
    THEN [authenticated |-> FALSE, authorized |-> FALSE]
    ELSE [authenticated |-> TRUE, authorized |-> TRUE]

verifyRoleFromRequest(token, requiredRole) ==
    IF token = NoToken THEN [authenticated |-> FALSE, authorized |-> FALSE]
    ELSE IF verifyToken(token) = NoToken
    THEN [authenticated |-> FALSE, authorized |-> FALSE]
    ELSE IF requiredRole # "" /\ verifyToken(token).role # requiredRole
    THEN [authenticated |-> TRUE, authorized |-> FALSE]
    ELSE [authenticated |-> TRUE, authorized |-> TRUE]

\* The response of the middleware for a path under /api/; NoResponse is
\* NextResponse.next().
middleware(pathname, token) ==
    IF \/ (Len(pathname) >= 3 /\ pathname[1] = "api" /\ pathname[2] = "auth")
       \/ pathname \in {<<"api", "health">>, <<"api", "admin", "init">>,
                        <<"api", "albums", "public">>, <<"api", "albums", "browse">>,
                        <<"api", "albums", "access">>}
    THEN NoResponse
    ELSE IF \E route \in adminApiRoutes : startsWith(pathname, route)
    THEN LET role == verifyRoleFromRequest(token, "admin")
         IN  IF ~role.authenticated THEN Json(401, FALSE, "Unauthorized", "")
             ELSE IF ~role.authorized
             THEN Json(403, FALSE, "Forbidden - Admin access required", "")
             ELSE NoResponse
    ELSE IF \E route \in protectedApiRoutes : startsWith(pathname, route)
    THEN IF ~verifyRoleFromRequest(token, "").authenticated
         THEN Json(401, FALSE, "Unauthorized", "")
         ELSE NoResponse
    ELSE NoResponse

\* The route files of the app directory: the handler of a method and a
\* path, "" when there is none.
Route(method, pathname) ==
    IF pathname = <<"api", "admin", "users">> /\ method \in {"GET", "PATCH"}
    THEN "admin/users " \o method
    ELSE IF pathname = <<"api", "admin", "invite-codes">>
            /\ method \in {"GET", "POST", "DELETE"}
    THEN "admin/invite-codes " \o method
    ELSE IF pathname = <<"api", "admin", "dashboard">> /\ method = "GET"
    THEN "admin/dashboard GET"
    ELSE IF pathname = <<"api", "admin", "init">> /\ method = "POST"
    THEN "admin/init POST"
    ELSE IF pathname = <<"api", "albums", "browse">> /\ method = "GET"
    THEN "albums/browse GET"
    ELSE IF Len(pathname) = 3 /\ pathname[1] = "api" /\ pathname[2] = "albums"
            /\ pathname[3] \notin {"public", "browse", "access"} /\ method = "GET"
    THEN "albums/[id] GET"
    ELSE ""

\* Request r arrives next and a handler is available to take it.
HttpAccepts(r) ==
    /\ r = started + 1
    /\ Cardinality(Running \cup {q \in Requests : http[q].pc # "idle"}) < NumSlots

\* A request arrives: the middleware when the matcher covers the path, then
\* the router.
HttpBegin(r, request) ==
    /\ HttpAccepts(r)
    /\ started' = r
    /\ LET blocked == IF matcher(request.pathname)
                      THEN middleware(request.pathname, request.token)
                      ELSE NoResponse
           handler == Route(request.method, request.pathname)
       IN  http' = [http EXCEPT ![r] =
               [IdleHttp EXCEPT
                   !.request = request,
                   !.pc = IF blocked # NoResponse \/ handler = "" THEN "done"
                          ELSE handler,
                   !.response = IF blocked # NoResponse THEN blocked
                                ELSE IF handler = ""
                                THEN Json(404, FALSE, "Not Found", "")
                                ELSE NoResponse]]
    /\ UNCHANGED <<users, inviteCodes, inviteCodeUsage, signup, authLimiter, nextUserId>>
    /\ UNCHANGED <<albums, albumImages>>
    /\ UNCHANGED photoVars

HttpRespond(r) ==
    /\ http[r].pc = "done"
    /\ http' = [http EXCEPT ![r] = IdleHttp]
    /\ UNCHANGED <<users, inviteCodes, inviteCodeUsage, signup, authLimiter, nextUserId>>
    /\ UNCHANGED <<albums, albumImages, started>>
    /\ UNCHANGED photoVars

HttpNoneFinished == \A q \in Requests : http[q].pc # "done"

(***************************************************************************)
(* The admin routes.  getAllUsers and getAllInviteCodes give [] on an      *)
(* error of the database.                                                  *)
(***************************************************************************)
AdminGetUsers(r, dbOk) ==
    /\ http[r].pc = "admin/users GET"
    /\ http' = [http EXCEPT ![r].pc = "done",
                     ![r].calls = @ \cup {"getAllUsers"},
                     ![r].data.users = IF dbOk THEN users ELSE {},
                     ![r].response = Json(200, TRUE, "", "")]
    /\ UNCHANGED <<users, inviteCodes, inviteCodeUsage, signup, authLimiter, nextUserId>>
    /\ UNCHANGED <<albums, albumImages, started>>
    /\ UNCHANGED photoVars

AdminPatchUser(r, dbOk) ==
    /\ http[r].pc = "admin/users PATCH"
    /\ LET currentUser == getCurrentUser(http[r].request.token)
           userId == http[r].request.userId
           isActive == http[r].request.isActive
       IN  IF currentUser = NoToken
           THEN /\ http' = [http EXCEPT ![r].pc = "done",
                                 ![r].response = Json(401, FALSE, "Unauthorized", "")]
                /\ UNCHANGED users
           ELSE IF userId = ""
           THEN /\ http' = [http EXCEPT ![r].pc = "done",
                                 ![r].response =
                                     Json(400, FALSE, "User ID and active status are required", "")]
                /\ UNCHANGED users
           ELSE IF userId = currentUser.userId /\ ~isActive
           THEN /\ http' = [http EXCEPT ![r].pc = "done",
                                 ![r].response =
                                     Json(400, FALSE, "You cannot deactivate your own account", "")]
                /\ UNCHANGED users
           ELSE /\ users' = IF dbOk
                            THEN {IF user.id = userId
                                  THEN [user EXCEPT !.is_active = isActive]
                                  ELSE user : user \in users}
                            ELSE users
                /\ http' = [http EXCEPT ![r].pc = "done",
                                 ![r].calls = @ \cup {"updateUserStatus"},
                                 ![r].response =
                                     IF ~dbOk
                                     THEN Json(500, FALSE, "Failed to update user status", "")
                                     ELSE IF isActive
                                     THEN Json(200, TRUE, "", "User activated successfully")
                                     ELSE Json(200, TRUE, "", "User deactivated successfully")]
    /\ UNCHANGED <<inviteCodes, inviteCodeUsage, signup, authLimiter, nextUserId>>
    /\ UNCHANGED <<albums, albumImages, started>>
    /\ UNCHANGED photoVars

AdminGetInviteCodes(r, dbOk) ==
    /\ http[r].pc = "admin/invite-codes GET"
    /\ http' = [http EXCEPT ![r].pc = "done",
                     ![r].calls = @ \cup {"getAllInviteCodes"},
                     ![r].data.inviteCodes = IF dbOk THEN inviteCodes ELSE {},
                     ![r].response = Json(200, TRUE, "", "")]
    /\ UNCHANGED <<users, inviteCodes, inviteCodeUsage, signup, authLimiter, nextUserId>>
    /\ UNCHANGED <<albums, albumImages, started>>
    /\ UNCHANGED photoVars

\* generateInviteCode gives eight random characters, taken as never
\* repeating: rows are only ever added to the table, so their number names
\* the next code.
AdminPostInviteCode(r, dbOk) ==
    /\ http[r].pc = "admin/invite-codes POST"
    /\ LET session == getCurrentUser(http[r].request.token)
           max_uses == http[r].request.max_uses
           code == "GEN" \o ToString(Cardinality(inviteCodes))
           row == [id |-> "invite-" \o code, code |-> code, max_uses |-> max_uses,
                   used_count |-> 0, expires_at |-> 0, is_active |-> TRUE]
       IN  IF session = NoToken \/ session.role # "admin"
           THEN /\ http' = [http EXCEPT ![r].pc = "done",
                                 ![r].response = Json(401, FALSE, "Unauthorized", "")]
                /\ UNCHANGED inviteCodes
           ELSE IF max_uses < 1 \/ max_uses > 1000
           THEN /\ http' = [http EXCEPT ![r].pc = "done",
                                 ![r].response =
                                     Json(400, FALSE,
                                          IF max_uses < 1 THEN "Max uses must be at least 1"
                                          ELSE "Max uses cannot exceed 1000", "")]
                /\ UNCHANGED inviteCodes
           ELSE /\ inviteCodes' = IF dbOk THEN inviteCodes \cup {row} ELSE inviteCodes
                /\ http' = [http EXCEPT ![r].pc = "done",
                                 ![r].calls = @ \cup {"createInviteCode"},
                                 ![r].data.inviteCodes = IF dbOk THEN {row} ELSE {},
                                 ![r].response =
                                     IF dbOk
                                     THEN Json(200, TRUE, "", "Invite code created successfully")
                                     ELSE Json(500, FALSE, "Failed to create invite code", "")]
    /\ UNCHANGED <<users, inviteCodeUsage, signup, authLimiter, nextUserId>>
    /\ UNCHANGED <<albums, albumImages, started>>
    /\ UNCHANGED photoVars

AdminDeleteInviteCode(r, dbOk) ==
    /\ http[r].pc = "admin/invite-codes DELETE"
    /\ LET codeId == http[r].request.id
       IN  IF codeId = ""
           THEN /\ http' = [http EXCEPT ![r].pc = "done",
                                 ![r].response =
                                     Json(400, FALSE, "Invite code ID is required", "")]
                /\ UNCHANGED inviteCodes
           ELSE /\ inviteCodes' = IF dbOk
                                  THEN {IF row.id = codeId
                                        THEN [row EXCEPT !.is_active = FALSE]
                                        ELSE row : row \in inviteCodes}
                                  ELSE inviteCodes
                /\ http' = [http EXCEPT ![r].pc = "done",
                                 ![r].calls = @ \cup {"revokeInviteCode"},
                                 ![r].response =
                                     IF dbOk
                                     THEN Json(200, TRUE, "", "Invite code revoked successfully")
                                     ELSE Json(500, FALSE, "Failed to revoke invite code", "")]
    /\ UNCHANGED <<users, inviteCodeUsage, signup, authLimiter, nextUserId>>
    /\ UNCHANGED <<albums, albumImages, started>>
    /\ UNCHANGED photoVars

\* The three reads run side by side; the tables here stay under the ten rows
\* the handler cuts each list to.
AdminDashboard(r, usersOk, codesOk) ==
    /\ http[r].pc = "admin/dashboard GET"
    /\ http' = [http EXCEPT ![r].pc = "done",
                     ![r].calls = @ \cup {"getAdminStats", "getAllUsers", "getAllInviteCodes"},
                     ![r].data.users = IF usersOk THEN users ELSE {},
                     ![r].data.inviteCodes = IF codesOk THEN inviteCodes ELSE {},
                     ![r].response = Json(200, TRUE, "", "")]
    /\ UNCHANGED <<users, inviteCodes, inviteCodeUsage, signup, authLimiter, nextUserId>>
    /\ UNCHANGED <<albums, albumImages, started>>
    /\ UNCHANGED photoVars

\* initializeAdminUser with ADMIN_EMAIL (admin@x.io) and ADMIN_PASSWORD set:
\* the insert is tried when no row was found, and fails on an email a row
\* already has.
AdminInit(r, dbOk) ==
    /\ http[r].pc = "admin/init POST"
    /\ IF dbOk /\ ~\E user \in users : user.email = "admin@x.io"
       THEN /\ users' = users \cup
                  {[id |-> "user" \o ToString(nextUserId), email |-> "admin@x.io",
                    role |-> "admin", is_active |-> TRUE]}
            /\ nextUserId' = nextUserId + 1
       ELSE UNCHANGED <<users, nextUserId>>
    /\ http' = [http EXCEPT ![r].pc = "done",
                     ![r].calls = @ \cup {"initializeAdminUser"},
                     ![r].response = Json(200, TRUE, "", "Admin initialization completed")]
    /\ UNCHANGED <<inviteCodes, inviteCodeUsage, signup, authLimiter>>
    /\ UNCHANGED <<albums, albumImages, started>>
    /\ UNCHANGED photoVars

(***************************************************************************)
(* Requests to paths under /api/admin, with no cookie, a cookie that does  *)
(* not verify, the administrator's and a member's.                         *)
(***************************************************************************)
AdminRequests ==
    LET tokens ==
            {NoToken, [userId |-> "admin", role |-> "admin", valid |-> FALSE],
             generateToken("admin", "admin"), generateToken("member", "user")}
        calls ==
            {[NoHttpRequest EXCEPT !.method = "GET", !.pathname = pathname] :
                pathname \in {<<"api", "admin", "users">>,
                              <<"api", "admin", "invite-codes">>,
                              <<"api", "admin", "dashboard">>,
                              <<"api", "admin", "users.json">>,
                              <<"api", "administrator">>}}
            \cup {[NoHttpRequest EXCEPT !.method = "PATCH",
                      !.pathname = <<"api", "admin", "users">>,
                      !.userId = body[1], !.isActive = body[2]] :
                    body \in {<<"member", FALSE>>, <<"member", TRUE>>,
                              <<"admin", FALSE>>, <<"", FALSE>>}}
            \cup {[NoHttpRequest EXCEPT !.method = "POST",
                      !.pathname = <<"api", "admin", "invite-codes">>,
                      !.max_uses = max_uses] : max_uses \in {0, 2}}
            \cup {[NoHttpRequest EXCEPT !.method = "DELETE",
                      !.pathname = <<"api", "admin", "invite-codes">>, !.id = id] :
                    id \in {"", "invite-OPEN"}}
            \cup {[NoHttpRequest EXCEPT !.method = "POST",
                      !.pathname = <<"api", "admin", "init">>]}
    IN  {[call EXCEPT !.token = token] : call \in calls, token \in tokens}

NextAdmin ==
    \E r \in Requests :
        \/ HttpRespond(r)
        \/ /\ HttpNoneFinished
           /\ \/ \E request \in AdminRequests : HttpBegin(r, request)
              \/ \E dbOk \in BOOLEAN : AdminGetUsers(r, dbOk)
              \/ \E dbOk \in BOOLEAN : AdminPatchUser(r, dbOk)
              \/ \E dbOk \in BOOLEAN : AdminGetInviteCodes(r, dbOk)
              \/ \E dbOk \in BOOLEAN : AdminPostInviteCode(r, dbOk)
              \/ \E dbOk \in BOOLEAN : AdminDeleteInviteCode(r, dbOk)
              \/ \E usersOk \in BOOLEAN, codesOk \in BOOLEAN :
                    AdminDashboard(r, usersOk, codesOk)
              \/ \E dbOk \in BOOLEAN : AdminInit(r, dbOk)

SpecAdmin == Init /\ [][NextAdmin]_vars

(***************************************************************************)
(* GET /api/albums/[id] and GET /api/albums/browse.  The first reads the   *)
(* album, decides on access, then reads the album's images and signs their *)
(* URLs; its cover_url repeats the preview_url of one of the images.  The  *)
(* second lists every album with the signed URL of its cover's preview.    *)
(***************************************************************************)
AlbumSelect(r, dbOk) ==
    /\ http[r].pc = "albums/[id] GET"
    /\ LET id == http[r].request.pathname[3]
           user == getCurrentUser(http[r].request.token)
           found == IF dbOk THEN {album \in albums : album.id = id} ELSE {}
       IN  IF found = {}
           THEN http' = [http EXCEPT ![r].pc = "done",
                              ![r].calls = @ \cup {"albums"},
                              ![r].response = Json(404, FALSE, "Album not found", "")]
           ELSE LET album == CHOOSE row \in found : TRUE
                    isOwner == user # NoToken /\ user.userId = album.user_id
                    isPublic == album.visibility = "public"
                    normalizedCode == trim(toUpperCase(http[r].request.code))
                    normalizedAccessCode == toUpperCase(album.access_code)
                IN  IF /\ ~isOwner
                       /\ ~isPublic
                       /\ (normalizedCode = "" \/ normalizedCode # normalizedAccessCode)
                    THEN http' = [http EXCEPT ![r].pc = "done",
                                       ![r].calls = @ \cup {"albums"},
                                       ![r].response = Json(403, FALSE, "Access denied", "")]
                    ELSE http' = [http EXCEPT ![r].pc = "albumImages",
                                       ![r].calls = @ \cup {"albums"},
                                       ![r].album = album]
    /\ UNCHANGED <<users, inviteCodes, inviteCodeUsage, signup, authLimiter, nextUserId>>
    /\ UNCHANGED <<albums, albumImages, started>>
    /\ UNCHANGED photoVars

\* An error of the second read gives no rows; a URL that cannot be signed
\* is ''.
AlbumListImages(r, dbOk, backendOk) ==
    /\ http[r].pc = "albumImages"
    /\ LET ids == IF dbOk
                  THEN {link.image_id : link \in
                           {row \in albumImages : row.album_id = http[r].album.id}}
                  ELSE {}
           validImages ==
               {[id |-> img.id,
                 preview_url |-> OrEmpty(getSignedUrl(img.preview_path, backendOk)),
                 full_url |-> OrEmpty(getSignedUrl(img.full_path, backendOk))] :
                   img \in {row \in images : row.id \in ids}}
       IN  http' = [http EXCEPT ![r].pc = "done",
                         ![r].calls = @ \cup {"album_images", "createSignedUrl"},
                         ![r].data.images = validImages,
                         ![r].response = Json(200, TRUE, "", "")]
    /\ UNCHANGED <<users, inviteCodes, inviteCodeUsage, signup, authLimiter, nextUserId>>
    /\ UNCHANGED <<albums, albumImages, started>>
    /\ UNCHANGED photoVars

BrowseAlbums(r, dbOk, backendOk) ==
    /\ http[r].pc = "albums/browse GET"
    /\ LET Cover(album) == {img \in images : img.id = album.cover_image_id}
           Entry(album) ==
               [id |-> album.id, visibility |-> album.visibility,
                cover_url |->
                    IF Cover(album) = {} THEN ""
                    ELSE OrEmpty(getSignedUrl(
                             (CHOOSE img \in Cover(album) : TRUE).preview_path, backendOk))]
       IN  http' = [http EXCEPT ![r].pc = "done",
                         ![r].calls = @ \cup {"albums"},
                         ![r].data.covers =
                             IF dbOk THEN {Entry(album) : album \in albums} ELSE {},
                         ![r].response =
                             IF dbOk THEN Json(200, TRUE, "", "")
                             ELSE Json(500, FALSE, "Failed to fetch albums", "")]
    /\ UNCHANGED <<users, inviteCodes, inviteCodeUsage, signup, authLimiter, nextUserId>>
    /\ UNCHANGED <<albums, albumImages, started>>
    /\ UNCHANGED photoVars

(***************************************************************************)
(* Albums over the library: u1 keeps picture 1 in the private album a1,   *)
(* which has the access code it was created with; u2 keeps picture 2 in   *)
(* a2, made private later and left without a code, and has a public album *)
(* a3 with nothing in it yet.  An album's cover is its first picture.     *)
(* Requests come with no cookie, with u1's and with u2's, for the three   *)
(* albums and one that does not exist, with no code, the code, the code   *)
(* in lower case between spaces, and another code.                        *)
(***************************************************************************)
InitialAlbums ==
    [albums |->
        {[id |-> "a1", user_id |-> "u1", visibility |-> "private",
          access_code |-> "SECRET12", cover_image_id |-> 1],
         [id |-> "a2", user_id |-> "u2", visibility |-> "private",
          access_code |-> "", cover_image_id |-> 2],
         [id |-> "a3", user_id |-> "u2", visibility |-> "public",
          access_code |-> "", cover_image_id |-> 0]},
     albumImages |->
        {[album_id |-> "a1", image_id |-> 1], [album_id |-> "a2", image_id |-> 2]}]

InitAlbums ==
    /\ objects = UNION {{img.preview_path, img.full_path} : img \in Library}
    /\ images = Library
    /\ req = [r \in Requests |-> IdleRequest]
    /\ nextUuid = 3
    /\ nextImageId = 3
    /\ uploadLimiter = [key \in UploadKeys |-> 0]
    /\ started = 0
    /\ usedNames = {img.filename : img \in Library}
    /\ derived = NoDerived
    /\ planned = {}
    /\ users = InitialUsers
    /\ inviteCodes = InitialInviteCodes
    /\ inviteCodeUsage = {[invite_code_id |-> "invite-SPENT", user_id |-> "member"]}
    /\ signup = [r \in Requests |-> IdleSignup]
    /\ authLimiter = 0
    /\ nextUserId = 1
    /\ http = [r \in Requests |-> IdleHttp]
    /\ albums = InitialAlbums.albums
    /\ albumImages = InitialAlbums.albumImages

AlbumRequests ==
    LET tokens == {NoToken, generateToken("u1", "user"), generateToken("u2", "user")}
        calls ==
            {[NoHttpRequest EXCEPT !.method = "GET",
                 !.pathname = <<"api", "albums", id>>, !.code = code] :
                id \in {"a1", "a2", "a3", "a9"},
                code \in {"", "SECRET12", " secret12 ", "WRONG000"}}
            \cup {[NoHttpRequest EXCEPT !.method = "GET",
                      !.pathname = <<"api", "albums", "browse">>]}
    IN  {[call EXCEPT !.token = token] : call \in calls, token \in tokens}

NextAlbums ==
    \E r \in Requests :
        \/ HttpRespond(r)
        \/ /\ HttpNoneFinished
           /\ \/ \E request \in AlbumRequests : HttpBegin(r, request)
              \/ \E dbOk \in BOOLEAN : AlbumSelect(r, dbOk)
              \/ \E dbOk \in BOOLEAN, backendOk \in BOOLEAN :
                    AlbumListImages(r, dbOk, backendOk)
              \/ \E dbOk \in BOOLEAN, backendOk \in BOOLEAN :
                    BrowseAlbums(r, dbOk, backendOk)

SpecAlbums == InitAlbums /\ [][NextAlbums]_vars

(***************************************************************************)
(* An administrator switches a user off and on while that user uploads,   *)
(* one request at a time.  The user u1 has a row in users and a cookie    *)
(* from a login before any of it; the upload handler takes its session    *)
(* from getCurrentUser.                                                    *)
(***************************************************************************)
InitDeactivate ==
    /\ objects = {}
    /\ images = {}
    /\ req = [r \in Requests |-> IdleRequest]
    /\ nextUuid = 1
    /\ nextImageId = 1
    /\ uploadLimiter = [key \in UploadKeys |-> 0]
    /\ started = 0
    /\ usedNames = {}
    /\ derived = NoDerived
    /\ planned = {}
    /\ users = InitialUsers \cup
          {[id |-> "u1", email |-> "u1@x.io", role |-> "user", is_active |-> TRUE]}
    /\ inviteCodes = InitialInviteCodes
    /\ inviteCodeUsage = {[invite_code_id |-> "invite-SPENT", user_id |-> "member"]}
    /\ signup = [r \in Requests |-> IdleSignup]
    /\ authLimiter = 0
    /\ nextUserId = 1
    /\ InitSite

NextDeactivate ==
    \E r \in Requests :
        \/ Respond(r)
        \/ HttpRespond(r)
        \/ /\ \A q \in Requests : req[q].pc = "idle" /\ http[q].pc = "idle"
           /\ \/ \E isActive \in BOOLEAN :
                    HttpBegin(r, [NoHttpRequest EXCEPT
                                     !.method = "PATCH",
                                     !.pathname = <<"api", "admin", "users">>,
                                     !.token = generateToken("admin", "admin"),
                                     !.userId = "u1", !.isActive = isActive])
              \/ \E file \in GoodFiles :
                    PostBegin(r, getCurrentUser(generateToken("u1", "user")).userId,
                              NoHeaders, file)
        \/ \E dbOk \in BOOLEAN : AdminPatchUser(r, dbOk)
        \/ \E backendOk \in BOOLEAN : UploadPreviewSettles(r, backendOk)
        \/ \E backendOk \in BOOLEAN : UploadFullSettles(r, backendOk)
        \/ PostJoin(r)
        \/ \E dbOk \in BOOLEAN : PostInsert(r, dbOk)
        \/ \E backendOk \in BOOLEAN : PostSignPreview(r, backendOk)
        \/ \E backendOk \in BOOLEAN : PostSignFull(r, backendOk)

SpecDeactivate == InitDeactivate /\ [][NextDeactivate]_vars

TypeOK ==
    /\ started \in 0..MaxRequests
    /\ Cardinality(Running) <= NumSlots
    /\ \A r \in Requests : req[r].pc \in
          {"idle", "upload", "insert", "signPreview", "signFull",
           "select", "deleteRow", "remove", "getImage", "done"}

(***************************************************************************)
(* Vocabulary of the properties.                                           *)
(***************************************************************************)
IsUpload(r) == req[r].kind = "POST" /\ req[r].admitted /\ req[r].file # NoFile
Finished(r) == req[r].pc = "done"
ValidationErrors == {"Invalid file type", "File size exceeds limit"}
RowsAt(previewPath, fullPath) ==
    {img \in images : img.preview_path = previewPath \/ img.full_path = fullPath}

(***************************************************************************)
(* C1.  An upload whose declared MIME type is outside the allow-list or    *)
(* whose size exceeds the maximum is answered with a validation error      *)
(* (status 400) and has called nothing: not processImage, no put, no       *)
(* insert, no signing.                                                     *)
(***************************************************************************)
C1_InvalidUploadFailsBeforeProcessing ==
    \A r \in Requests :
        (IsUpload(r) /\ (req[r].file.type \notin ALLOWED_MIME_TYPES
                           \/ req[r].file.size > MAX_FILE_SIZE))
        => /\ Finished(r)
           /\ req[r].response.status = 400
           /\ ~req[r].response.success
           /\ req[r].response.error \in ValidationErrors
           /\ req[r].calls = {}
           /\ req[r].previewUpload = "none" /\ req[r].fullUpload = "none"
           /\ req[r].insert = "none"

C1_Witness ==
    \E r \in Requests :
        /\ IsUpload(r) /\ Finished(r)
        /\ req[r].file.type = "application/pdf"
        /\ req[r].response.status = 400
        /\ req[r].response.error = "Invalid file type"

(***************************************************************************)
(* C2.  With an allowed MIME type, a file of exactly MAX_FILE_SIZE bytes   *)
(* passes validation (the handler goes on to processImage), and a file of  *)
(* MAX_FILE_SIZE + 1 bytes is answered with the size validation error and  *)
(* has made no call to the store.                                          *)
(***************************************************************************)
C2_SizeBoundary ==
    \A r \in Requests :
        (IsUpload(r) /\ req[r].file.type \in ALLOWED_MIME_TYPES)
        => /\ req[r].file.size = 10 * 1024 * 1024
              => /\ "processImage" \in req[r].calls
                 /\ req[r].response.status # 400
           /\ req[r].file.size = 10 * 1024 * 1024 + 1
              => /\ Finished(r)
                 /\ req[r].response.status = 400
                 /\ req[r].response.error = "File size exceeds limit"
                 /\ req[r].calls = {}

C2_Witness ==
    \E r \in Requests :
        /\ IsUpload(r) /\ Finished(r)
        /\ req[r].file.size = 10 * 1024 * 1024
        /\ req[r].response.success
        /\ req[r].previewPath \in objects /\ req[r].fullPath \in objects

(***************************************************************************)
(* C3.  When exactly one of the two uploads failed, the handler answers    *)
(* with the storage error, the object that was stored is gone from the     *)
(* bucket when the answer is given, and no row was inserted.               *)
(***************************************************************************)
C3_PartialUploadCompensated ==
    \A r \in Requests :
        (IsUpload(r) /\ Finished(r)
           /\ \/ req[r].previewUpload = "ok" /\ req[r].fullUpload = "fail"
              \/ req[r].previewUpload = "fail" /\ req[r].fullUpload = "ok")
        => /\ req[r].response.status = 500
           /\ req[r].response.error = StorageError
           /\ req[r].previewPath \notin objects
           /\ req[r].fullPath \notin objects
           /\ RowsAt(req[r].previewPath, req[r].fullPath) = {}

(***************************************************************************)
(* C4.  When the insert failed after both uploads succeeded, the handler   *)
(* answers with the metadata error, both objects are gone from the bucket  *)
(* when the answer is given, and no row exists for the attempt.            *)
(***************************************************************************)
C4_FailedInsertCompensated ==
    \A r \in Requests :
        (IsUpload(r) /\ Finished(r) /\ req[r].insert = "fail")
        => /\ req[r].response.status = 500
           /\ req[r].response.error = MetadataError
           /\ req[r].previewPath \notin objects
           /\ req[r].fullPath \notin objects
           /\ RowsAt(req[r].previewPath, req[r].fullPath) = {}

(***************************************************************************)
(* C5.  Every row of the images table has its preview_path and its         *)
(* full_path in the bucket, in every state of every interleaving of        *)
(* uploads and deletes.                                                    *)
(***************************************************************************)
C5_NoRowPointsAtMissingObject ==
    \A img \in images : img.preview_path \in objects /\ img.full_path \in objects

C5_Witness ==
    /\ images # {}
    /\ \E d \in Requests : req[d].kind = "DELETE" /\ req[d].pc = "remove"
    /\ \E u \in Requests : req[u].kind = "POST" /\ req[u].saved # 0

(***************************************************************************)
(* C6.  The insert is issued only when both uploads of the same attempt    *)
(* have succeeded, and while it is in flight both objects are stored.      *)
(***************************************************************************)
C6_InsertOnlyAfterBothStored ==
    \A r \in Requests :
        /\ "insert" \in req[r].calls
           => req[r].previewUpload = "ok" /\ req[r].fullUpload = "ok"
        /\ req[r].pc = "insert"
           => req[r].previewPath \in objects /\ req[r].fullPath \in objects

C6_Witness ==
    /\ \E r \in Requests : req[r].insert = "ok"
    /\ \E r \in Requests :
          /\ Finished(r) /\ req[r].previewUpload = "ok" /\ req[r].fullUpload = "fail"
          /\ "insert" \notin req[r].calls

(***************************************************************************)
(* C7.  The two puts are issued together, and the handler is past the      *)
(* await (inserting, signing or answered) only when neither put is still   *)
(* pending, whichever settled first and however each settled.              *)
(***************************************************************************)
C7_JoinWaitsForBothUploads ==
    \A r \in Requests :
        req[r].kind = "POST"
        => /\ ("put_preview" \in req[r].calls) <=> ("put_full" \in req[r].calls)
           /\ (req[r].previewUpload = "none") <=> (req[r].fullUpload = "none")
           /\ req[r].pc # "upload"
              => req[r].previewUpload # "pending" /\ req[r].fullUpload # "pending"

C7_Witness ==
    /\ \E r \in Requests :
          req[r].pc = "upload" /\ req[r].previewUpload = "pending"
             /\ req[r].fullUpload = "fail"
    /\ \E r \in Requests :
          req[r].pc = "upload" /\ req[r].previewUpload = "ok"
             /\ req[r].fullUpload = "pending"

(***************************************************************************)
(* C8.  An upload that passes validation but cannot be decoded is answered *)
(* with an error (the handler's catch-all, status 500) after processImage  *)
(* alone: no put was issued, no insert, no signing.                        *)
(***************************************************************************)
C8_DecodeFailureLeavesNothing ==
    \A r \in Requests :
        (IsUpload(r) /\ req[r].file.type \in ALLOWED_MIME_TYPES
           /\ req[r].file.size <= MAX_FILE_SIZE /\ req[r].file.image = Undecodable)
        => /\ Finished(r)
           /\ req[r].response.status = 500
           /\ ~req[r].response.success
           /\ req[r].response.error = CatchAllError
           /\ req[r].calls = {"processImage"}
           /\ req[r].previewUpload = "none" /\ req[r].fullUpload = "none"
           /\ req[r].insert = "none" /\ req[r].saved = 0

C8_Witness ==
    \E r \in Requests :
        /\ IsUpload(r) /\ Finished(r)
        /\ req[r].file.type = "image/jpeg" /\ req[r].file.size = 0
        /\ req[r].response.status = 500

(***************************************************************************)
(* C9.  When the delete handler has answered with success, the row, the    *)
(* preview object and the full object are all gone.                        *)
(***************************************************************************)
C9_DeleteRemovesRowAndObjects ==
    \A r \in Requests :
        (req[r].kind = "DELETE" /\ Finished(r) /\ req[r].response.success)
        => /\ OwnedRows(req[r].target, req[r].user) = {}
           /\ req[r].previewPath \notin objects
           /\ req[r].fullPath \notin objects

C11_SigningFailureNotFatal ==
    \A r \in Requests :
        (req[r].kind = "POST" /\ Finished(r) /\ req[r].insert = "ok") =>
            /\ req[r].response.success
            /\ req[r].response.status = 200
            /\ req[r].data.image.id = req[r].saved
            /\ req[r].data.image.preview_path = req[r].previewPath
            /\ req[r].data.image.full_path = req[r].fullPath
            /\ req[r].data.preview_url =
                  (IF req[r].previewSigned = null THEN ""
                   ELSE "signed:" \o req[r].previewPath)
            /\ req[r].data.full_url =
                  (IF req[r].fullSigned = null THEN ""
                   ELSE "signed:" \o req[r].fullPath)

C11_Witness ==
    \E r \in Requests :
        /\ req[r].kind = "POST" /\ Finished(r) /\ req[r].insert = "ok"
        /\ req[r].previewSigned = null
        /\ req[r].fullSigned # null
        /\ req[r].response.success
        /\ req[r].data.preview_url = ""

(***************************************************************************)
(* C12.  No upscaling.  For every decodable picture that processImage      *)
(* turns into renditions, the encoded preview is at most                   *)
(* min(PREVIEW_WIDTH, W) pixels wide and the encoded full rendition at     *)
(* most min(FULL_WIDTH, W), W being the width metadata() reports; neither  *)
(* is wider than the picture as displayed (after the orientation tag is    *)
(* applied); and the widths processImage returns obey the same bounds.     *)
(***************************************************************************)
C12_NoUpscaling ==
    (derived # NoDerived /\ ~derived.processed.threw) =>
        LET W == derived.image[1]
            shown == rotate(derived.image)[1]
            preview == derived.processed.preview
            full == derived.processed.full
        IN  /\ preview.buffer.width <= Min(PREVIEW_WIDTH, W)
            /\ full.buffer.width <= Min(FULL_WIDTH, W)
            /\ preview.buffer.width <= shown
            /\ full.buffer.width <= shown
            /\ preview.width <= Min(PREVIEW_WIDTH, W)
            /\ full.width <= Min(FULL_WIDTH, W)

C12_Witness ==
    /\ derived.image = <<150, 225, 1>>
    /\ ~derived.processed.threw
    /\ derived.processed.preview.buffer.width = 150
    /\ derived.processed.full.buffer.width = 150

(***************************************************************************)
(* C13.  For each profile the width processImage returns is                *)
(* min(profile width, originalWidth) and the height it returns is          *)
(* originalHeight scaled by width/originalWidth and rounded to an integer  *)
(* (at most half a pixel from the exact quotient); and the encoded         *)
(* rendition has the aspect ratio of the displayed picture to within one   *)
(* pixel.                                                                  *)
(***************************************************************************)
C13_AspectRatioKept ==
    (derived # NoDerived /\ ~derived.processed.threw) =>
        LET ow == derived.image[1]
            oh == derived.image[2]
            sw == rotate(derived.image)[1]
            sh == rotate(derived.image)[2]
            Rounded(r, profileWidth) ==
                /\ r.width = Min(profileWidth, ow)
                /\ 2 * (r.height * ow - r.width * oh) <= ow
                /\ 2 * (r.width * oh - r.height * ow) <= ow
            SameShape(b) ==
                LET skew == b.width * sh - b.height * sw
                IN  /\ skew < (IF sw > sh THEN sw ELSE sh)
                    /\ -skew < (IF sw > sh THEN sw ELSE sh)
        IN  /\ Rounded(derived.processed.preview, PREVIEW_WIDTH)
            /\ Rounded(derived.processed.full, FULL_WIDTH)
            /\ SameShape(derived.processed.preview.buffer)
            /\ SameShape(derived.processed.full.buffer)

C13_Witness ==
    /\ derived.image = <<4000, 3001, 6>>
    /\ ~derived.processed.threw
    /\ derived.processed.preview.width = 300
    /\ derived.processed.preview.height = 225
    /\ derived.processed.full.height = 1501

(***************************************************************************)
(* C14.  For every call of generateStoragePaths the preview path and the   *)
(* full path are non-empty and differ from each other; two calls for one   *)
(* owner with different filenames have no path in common; two calls with   *)
(* the same owner and filename return the same paths.                      *)
(***************************************************************************)
C14_PathsDistinctPerOwner ==
    \A p, q \in planned :
        /\ p.paths.previewPath # ""
        /\ p.paths.fullPath # ""
        /\ p.paths.previewPath # p.paths.fullPath
        /\ (p.userId = q.userId /\ p.filename # q.filename) =>
              {p.paths.previewPath, p.paths.fullPath}
                 \cap {q.paths.previewPath, q.paths.fullPath} = {}
        /\ (p.userId = q.userId /\ p.filename = q.filename) => p.paths = q.paths

C14_Witness ==
    \E p, q \in planned :
        /\ p.userId = q.userId
        /\ p.filename = uuidv4(1) \o ".webp"
        /\ q.filename = "full/" \o uuidv4(1) \o ".webp"

(***************************************************************************)
(* C15.  Two calls of generateStoragePaths for different owners have no    *)
(* path in common, whatever the filenames.                                 *)
(***************************************************************************)
C15_OwnersNeverShareAPath ==
    \A p, q \in planned :
        p.userId # q.userId =>
            {p.paths.previewPath, p.paths.fullPath}
               \cap {q.paths.previewPath, q.paths.fullPath} = {}

C15_Witness ==
    \E p, q \in planned :
        /\ p.userId = "u1"
        /\ q.userId = "u11"
        /\ p.filename = q.filename

C17_SuccessfulUploadRecord ==
    \A r \in Requests :
        (req[r].kind = "POST" /\ Finished(r) /\ req[r].response.success) =>
            LET row == req[r].data.image
                processed == req[r].processed
                paths == generateStoragePaths(req[r].user, processed.filename)
            IN  /\ row \in images
                /\ Cardinality({img \in images : img.filename = processed.filename}) = 1
                /\ Cardinality(RowsAt(paths.previewPath, paths.fullPath)) = 1
                /\ row.user_id = req[r].user
                /\ row.preview_path = paths.previewPath
                /\ row.full_path = paths.fullPath
                /\ row.width = processed.full.width
                /\ row.height = processed.full.height
                /\ row.mime_type = "image/webp"
                /\ req[r].file.image = <<4000, 3000, 1>> =>
                      /\ row.width = 2000 /\ row.height = 1500
                      /\ processed.full.buffer = [width |-> 2000, height |-> 1500]
                      /\ processed.preview.width = 300 /\ processed.preview.height = 225
                      /\ processed.preview.buffer = [width |-> 300, height |-> 225]
                /\ req[r].data.preview_url \in {"", "signed:" \o paths.previewPath}
                /\ req[r].data.full_url \in {"", "signed:" \o paths.fullPath}

C17_Witness ==
    \E r \in Requests :
        /\ req[r].kind = "POST" /\ Finished(r) /\ req[r].response.success
        /\ req[r].file.type = "image/heif"
        /\ req[r].file.image = <<4000, 3000, 1>>
        /\ req[r].data.image.mime_type = "image/webp"
        /\ req[r].data.image.width = 2000
        /\ req[r].data.preview_url # ""
        /\ req[r].data.full_url # ""

(***************************************************************************)
(* C18.  An upload that fails reports the error of the first stage that    *)
(* failed and of no other: a validation message with status 400 for a bad  *)
(* type or size, the catch block's message for a picture that cannot be    *)
(* decoded, the storage message for a failed put, the metadata message for *)
(* a failed insert; exactly one of the four stages has failed; and the     *)
(* four kinds of message differ from one another.                          *)
(***************************************************************************)
C18_OneErrorKindPerFailure ==
    /\ StorageError \notin ValidationErrors \cup {MetadataError, CatchAllError}
    /\ MetadataError \notin ValidationErrors \cup {CatchAllError}
    /\ CatchAllError \notin ValidationErrors
    /\ \A r \in Requests :
          (IsUpload(r) /\ Finished(r) /\ ~req[r].response.success) =>
              LET invalid == \/ req[r].file.type \notin ALLOWED_MIME_TYPES
                             \/ req[r].file.size > MAX_FILE_SIZE
                  undecodable == ~invalid /\ req[r].file.image = Undecodable
                  storage == "fail" \in {req[r].previewUpload, req[r].fullUpload}
                  metadata == req[r].insert = "fail"
                  error == req[r].response.error
              IN  /\ invalid =>
                        /\ error \in ValidationErrors /\ req[r].response.status = 400
                        /\ ~storage /\ ~metadata
                  /\ undecodable =>
                        /\ error = CatchAllError /\ req[r].response.status = 500
                        /\ ~storage /\ ~metadata
                  /\ storage =>
                        /\ error = StorageError /\ req[r].response.status = 500
                        /\ ~metadata
                  /\ metadata =>
                        error = MetadataError /\ req[r].response.status = 500
                  /\ invalid \/ undecodable \/ storage \/ metadata

C18_Witness ==
    \E r \in Requests :
        /\ IsUpload(r) /\ Finished(r)
        /\ req[r].previewUpload = "ok"
        /\ req[r].fullUpload = "fail"
        /\ req[r].response.error = "Failed to upload image to storage"
        /\ req[r].response.status = 500

(***************************************************************************)
(* C19.  An upload request without a current user is answered 401 in the   *)
(* step that receives it, and that step does nothing else: no point of the *)
(* rate limiter is consumed, nothing is validated or processed (no call is *)
(* made, no filename is generated), and the bucket and the images table    *)
(* are left as they were.                                                  *)
(***************************************************************************)
C19_UnauthorizedDoesNothing ==
    [][\A r \in Requests :
          (req[r].pc = "idle" /\ req'[r].kind = "POST" /\ req'[r].user = NoSession) =>
              /\ req'[r].pc = "done"
              /\ req'[r].response = Json(401, FALSE, "Unauthorized", "")
              /\ ~req'[r].admitted
              /\ req'[r].calls = {}
              /\ uploadLimiter' = uploadLimiter
              /\ nextUuid' = nextUuid
              /\ usedNames' = usedNames
              /\ objects' = objects
              /\ images' = images]_vars

C19_Witness ==
    \E r \in Requests :
        /\ req[r].kind = "POST" /\ Finished(r)
        /\ req[r].user = NoSession
        /\ req[r].file # NoFile
        /\ req[r].response.status = 401
        /\ objects # {}

(***************************************************************************)
(* C20.  Registration is by invite only.  When a signup reaches the check  *)
(* of its invite code and no row has the code, or the row is deactivated,  *)
(* expired, or has used_count at or above max_uses, the request ends there *)
(* with status 400: no user is created, no cookie is set, and no row of    *)
(* invite_codes or invite_code_usage changes.  A body without an invite    *)
(* code ends in the step that receives it, with the same effect.  And      *)
(* every user row that signup has added has role 'user', whatever the body *)
(* asked for.                                                              *)
(***************************************************************************)
C20_InviteOnlyRegistration ==
    [][/\ \A r \in Requests :
             LET code == signup[r].inviteCode
                 rows == {row \in inviteCodes : row.code = code}
                 unusable ==
                     \/ rows = {}
                     \/ \E row \in rows :
                            \/ ~row.is_active
                            \/ row.used_count >= row.max_uses
                            \/ row.expires_at # 0 /\ row.expires_at < Now
                 rejected ==
                     /\ signup'[r].pc = "done"
                     /\ signup'[r].response.status = 400
                     /\ ~signup'[r].response.success
                     /\ signup'[r].user = ""
                     /\ signup'[r].cookie = ""
                     /\ signup'[r].calls \cap
                           {"createUser", "incrementInviteCodeUsage", "setAuthCookie"} = {}
                     /\ users' = users
                     /\ inviteCodes' = inviteCodes
                     /\ inviteCodeUsage' = inviteCodeUsage
             IN  /\ (signup[r].pc = "findInvite" /\ signup'[r].pc # "findInvite" /\ unusable)
                       => rejected
                 /\ (signup[r].pc = "idle" /\ signup'[r].pc # "idle"
                        /\ signup'[r].body # MalformedBody
                        /\ signup'[r].body.inviteCode = ""
                        /\ authLimiter < AUTH_POINTS)
                       => rejected
       /\ \A user \in users' : user \notin InitialUsers => user.role = "user"]_vars

C20_Witness ==
    \E r \in Requests :
        /\ signup[r].pc = "done"
        /\ signup[r].inviteCode = "OPEN"
        /\ signup[r].response =
              Json(400, FALSE, "This invite code has reached its usage limit", "")
        /\ \E user \in users : user.email = "new@x.io" /\ user.role = "user"
        /\ Cardinality(users) = 3

(***************************************************************************)
(* C21.  For every decodable picture that processImage turns into          *)
(* renditions, the width and height it returns for the full rendition (the *)
(* numbers the handler stores in the row) are the pixel width and height   *)
(* of the encoded full rendition, also when the orientation tag turns the  *)
(* picture by a quarter turn.                                              *)
(***************************************************************************)
C21_ReportedSizeIsEncodedSize ==
    (derived # NoDerived /\ ~derived.processed.threw) =>
        /\ derived.processed.full.width = derived.processed.full.buffer.width
        /\ derived.processed.full.height = derived.processed.full.buffer.height

(***************************************************************************)
(* C22.  An upload that is answered with an error has created no row: its  *)
(* insert did not succeed, it holds no saved row, and no row of the table  *)
(* has its filename or its paths.  An upload whose insert succeeded is     *)
(* answered with success whatever the signing of the two URLs returned, so *)
(* a reported failure never leaves a row that a retry would duplicate.     *)
(***************************************************************************)
C22_ReportedFailureLeftNoRow ==
    \A r \in Requests :
        (req[r].kind = "POST" /\ Finished(r)) =>
            /\ ~req[r].response.success =>
                  /\ req[r].insert # "ok"
                  /\ req[r].saved = 0
                  /\ req[r].savedImage = NoImage
                  /\ "processImage" \in req[r].calls =>
                        /\ RowsAt(req[r].previewPath, req[r].fullPath) = {}
                        /\ \A img \in images : img.filename # uuidv4(nextUuid - 1) \o ".webp"
            /\ req[r].insert = "ok" =>
                  /\ req[r].response.success
                  /\ req[r].savedImage \in images

C22_Witness ==
    \E r \in Requests :
        /\ req[r].kind = "POST" /\ Finished(r)
        /\ req[r].insert = "ok"
        /\ req[r].previewSigned = null /\ req[r].fullSigned = null
        /\ req[r].response.status = 200
        /\ req[r].savedImage \in images
        /\ Cardinality(images) = 1
        /\ nextUuid = 3

(***************************************************************************)
(* C23.  Rows are isolated by owner.  When a GET or a DELETE by a signed-in *)
(* user looks up an image id that no row of that user has, the request     *)
(* ends there with status 404 and the table and the bucket are as before.  *)
(* A row leaves the table only in a step of a DELETE by the row's user for *)
(* the row's id, and an object leaves the bucket only in a step of a       *)
(* DELETE whose user is the owner in the object's path.                    *)
(***************************************************************************)
C23_OwnerIsolation ==
    [][\A r \in Requests :
          LET own == {img \in images :
                         img.id = req[r].target /\ img.user_id = req[r].user}
              ownPaths ==
                  UNION {{generateStoragePaths(req[r].user, name).previewPath,
                          generateStoragePaths(req[r].user, name).fullPath} :
                            name \in usedNames}
          IN  /\ (req[r].kind \in {"GET", "DELETE"}
                    /\ req[r].pc \in {"getImage", "select"}
                    /\ req'[r].pc # req[r].pc
                    /\ own = {})
                 => /\ req'[r].pc = "done"
                    /\ req'[r].response.status = 404
                    /\ ~req'[r].response.success
                    /\ req'[r].data = NoData
                    /\ images' = images
                    /\ objects' = objects
              /\ req'[r] # req[r]
                 => /\ images \ images' \subseteq own
                    /\ objects \ objects' \subseteq ownPaths
                    /\ (images' # images \/ objects' # objects)
                          => req[r].kind = "DELETE"]_vars

C23_Witness ==
    \E r \in Requests :
        /\ req[r].kind = "DELETE" /\ Finished(r)
        /\ req[r].user = "u2" /\ req[r].target = 1
        /\ req[r].response.status = 404
        /\ LibraryRow(1, "u1") \in images
        /\ LibraryRow(1, "u1").preview_path \in objects
        /\ LibraryRow(1, "u1").full_path \in objects
        /\ LibraryRow(2, "u2") \notin images
        /\ LibraryRow(2, "u2").full_path \notin objects

(***************************************************************************)
(* C24.  Of two DELETE requests by the owner for the same image that run   *)
(* at the same time, at most one issues the storage delete for the image's *)
(* two paths (and goes on to answer 'Image deleted successfully'); the     *)
(* other has been answered 'Image not found or already deleted'.           *)
(***************************************************************************)
C24_ConcurrentDeleteOnce ==
    \A r, q \in Requests :
        (r # q /\ req[r].kind = "DELETE" /\ req[q].kind = "DELETE"
               /\ req[r].user = req[q].user /\ req[r].target = req[q].target
               /\ "remove" \in req[r].calls)
        => "remove" \notin req[q].calls

(***************************************************************************)
(* C25.  No invite code is used more often than max_uses allows: in every  *)
(* state used_count <= max_uses for every row of invite_codes, no code has *)
(* more rows of invite_code_usage than max_uses, and the users that signup *)
(* has created are at most max_uses of the one code that was usable, also  *)
(* when signups presenting that code run at the same time.                 *)
(***************************************************************************)
C25_InviteUsesBounded ==
    /\ \A row \in inviteCodes :
          /\ row.used_count <= row.max_uses
          /\ Cardinality({usage \in inviteCodeUsage : usage.invite_code_id = row.id})
                <= row.max_uses
    /\ Cardinality(users \ InitialUsers) <= InviteCodeRow("OPEN").max_uses

C27_AdminRoutesAnswered401Or403 ==
    [][\A r \in Requests :
        LET request == http'[r].request
            token == request.token
        IN  (/\ http'[r] # http[r]
             /\ http'[r].pc # "idle"
             /\ Len(request.pathname) >= 2
             /\ request.pathname[1] = "api"
             /\ BeginsWith(request.pathname[2], "admin")
             /\ request.pathname # <<"api", "admin", "init">>
             /\ ~(token.valid /\ token.role = "admin")) =>
                /\ http'[r].pc = "done"
                /\ http'[r].response.status = IF token.valid THEN 403 ELSE 401
                /\ http'[r].calls = {}
                /\ http'[r].data = NoHttpData
                /\ users' = users
                /\ inviteCodes' = inviteCodes]_vars

(***************************************************************************)
(* C27, amended.  The same for every such path that the middleware's       *)
(* matcher covers, that is, with no dot in it.  A path with a dot is not   *)
(* given to the middleware; it names no route and is answered 404.  In all *)
(* three cases no handler is reached and no admin operation takes effect.  *)
(***************************************************************************)
C27_AdminRoutesGuarded ==
    [][\A r \in Requests :
        LET request == http'[r].request
            token == request.token
        IN  (/\ http'[r] # http[r]
             /\ http'[r].pc # "idle"
             /\ Len(request.pathname) >= 2
             /\ request.pathname[1] = "api"
             /\ BeginsWith(request.pathname[2], "admin")
             /\ request.pathname # <<"api", "admin", "init">>
             /\ ~(token.valid /\ token.role = "admin")) =>
                /\ http'[r].pc = "done"
                /\ http'[r].response.status =
                      IF \E i \in DOMAIN request.pathname : HasDot(request.pathname[i])
                      THEN 404
                      ELSE IF token.valid THEN 403 ELSE 401
                /\ http'[r].calls = {}
                /\ http'[r].data = NoHttpData
                /\ users' = users
                /\ inviteCodes' = inviteCodes]_vars

\* A member asked to deactivate the administrator and was answered 403; the
\* administrator is still active.
C27_Witness ==
    \E r \in Requests :
        /\ http[r].pc = "done"
        /\ http[r].request.method = "PATCH"
        /\ http[r].request.pathname = <<"api", "admin", "users">>
        /\ http[r].request.token = generateToken("member", "user")
        /\ http[r].request.userId = "admin"
        /\ http[r].response.status = 403
        /\ http[r].calls = {}
        /\ \A user \in users : user.is_active

(***************************************************************************)
(* C28.  The pictures of a private album go only to its owner and to a     *)
(* requester who gives the album's access code, compared without regard to *)
(* case and surrounding spaces.  For every answered request and every      *)
(* private album whose owner the requester is not and whose code the       *)
(* request does not carry (no code, an empty code, another code, or any    *)
(* code when the album has none): the answer holds no signed URL of a      *)
(* picture of that album, and a request for that album is refused with no  *)
(* data: with 403 by the handler, with 401 by the middleware when no       *)
(* session verifies, with 404 when the album cannot be read.               *)
(***************************************************************************)
C28_PrivateAlbumGated ==
    \A r \in Requests, album \in albums :
        LET request == http[r].request
            isOwner == request.token.valid /\ request.token.userId = album.user_id
            hasCode == /\ album.access_code = "SECRET12"
                       /\ request.code \in {"SECRET12", " secret12 "}
            pictures == {img \in images :
                            [album_id |-> album.id, image_id |-> img.id] \in albumImages}
            urls == UNION {{"signed:" \o img.preview_path, "signed:" \o img.full_path} :
                              img \in pictures}
            returned == UNION {{item.preview_url, item.full_url} :
                                  item \in http[r].data.images}
                        \cup {item.cover_url : item \in http[r].data.covers}
        IN  (/\ http[r].pc = "done"
             /\ album.visibility = "private"
             /\ ~isOwner
             /\ ~hasCode) =>
                /\ returned \cap urls = {}
                /\ request.pathname = <<"api", "albums", album.id>> =>
                      /\ http[r].response.status \in {401, 403, 404}
                      /\ http[r].data = NoHttpData

(***************************************************************************)
(* C29.  Once an administrator has deactivated a user, no upload of that   *)
(* user goes through, whatever cookie it carries: while the user's row has *)
(* is_active false, no step adds a row of that user to the images table or *)
(* an object under that user's folders to the bucket, and no upload of     *)
(* that user is answered with success.  Requests are served one at a time, *)
(* so every such step belongs to a request received after the              *)
(* deactivation.                                                           *)
(***************************************************************************)
C29_DeactivatedUserCannotUpload ==
    [][\A user \in users :
          LET folders ==
                  UNION {{generateStoragePaths(user.id, name).previewPath,
                          generateStoragePaths(user.id, name).fullPath} :
                            name \in usedNames'}
          IN  ~user.is_active =>
                 /\ {img \in images' : img.user_id = user.id} \subseteq images
                 /\ (objects' \cap folders) \subseteq objects
                 /\ \A r \in Requests :
                       (req'[r] # req[r] /\ req'[r].user = user.id
                          /\ req'[r].kind = "POST")
                          => ~req'[r].response.success]_vars

(***************************************************************************)
(* C30.  For every decodable picture with positive width and height,       *)
(* processImage computes a preview height and a full height of at least 1, *)
(* so neither resize call is handed an empty box: the call does not throw  *)
(* and both returned heights are positive, also for very wide and very     *)
(* flat pictures such as 10000x1.                                          *)
(***************************************************************************)
C30_DerivativeHeightsPositive ==
    (derived # NoDerived /\ derived.image # Undecodable
        /\ derived.image[1] > 0 /\ derived.image[2] > 0) =>
        /\ ~derived.processed.threw
        /\ derived.processed.preview.height >= 1
        /\ derived.processed.full.height >= 1

====
